---- MODULE Spec2Model ----
(***************************************************************************)
(* A model of the randomness-assessment core of the Quantum Secure Key     *)
(* Generator backend: EntropyAnalyzer (entropy_analyzer.py), the           *)
(* RandomnessComparator (comparator.py) and the way app.py shares one      *)
(* instance of each between requests.                                      *)
(*                                                                         *)
(* Conventions.                                                            *)
(*  - A Python str is a sequence of one-character strings.                 *)
(*  - A Python dict is a record; "key in d" is  "key" \in DOMAIN d.        *)
(*  - None is the empty sequence <<>> where the other values are           *)
(*    sequences (an optional value v is <<v>>), and the string "None"      *)
(*    where the other values are strings.                                  *)
(*  - A call that raises yields the record [raised |-> <exception name>].  *)
(*  - Real-valued statistics are kept exact: every comparison the code     *)
(*    makes on floats is decided on the rational numbers it stands for,    *)
(*    with the float roundings that change a decision written out.         *)
(***************************************************************************)
EXTENDS Integers, Sequences, FiniteSets, TLC

VARIABLES
    pc,              \* position of the request being served
    analyzer,        \* the EntropyAnalyzer instance (self)
    bit_string,      \* argument of the current analyze call
    report,          \* value returned by the last analyze call
    ran,             \* names of the tests the last analyze call executed
    calls,           \* history: arguments of the analyze calls on the shared analyzer
    returns,         \* history: what each of those calls returned
    last_lag,        \* lag argument of the last autocorrelation_test call
    comparator,      \* the RandomnessComparator instance (self)
    request,         \* arguments of the current comparator call
    result,          \* value returned (or raised) by the last comparator call
    response,        \* what the service answered to the last request
    source_calls,    \* the calls the last comparator call made to the sources
    produced,        \* history: the classical generations made on the comparator
    threads,         \* the requests running concurrently on the comparator
    comparisons,     \* history: the comparisons made on the comparator
    IBM_AVAILABLE,   \* ibm_quantum.py: whether qiskit_ibm_runtime was imported
    frame,           \* the locals of the running generate_secure_key call
    crypto_calls     \* history: the padding calls made on the CryptoEngine

analyzerVars == <<pc, analyzer, bit_string, report, ran, calls, returns, last_lag>>

comparatorVars ==
    <<comparator, request, result, response, source_calls, produced, threads,
      comparisons, IBM_AVAILABLE, frame, crypto_calls>>

vars == <<pc, analyzer, bit_string, report, ran, calls, returns, last_lag,
          comparator, request, result, response, source_calls, produced, threads,
          comparisons, IBM_AVAILABLE, frame, crypto_calls>>

(***************************************************************************)
(* Bounds of the model.                                                    *)
(***************************************************************************)
\* longest bit string handed to analyze
MaxLen == 22
\* number of analyze calls followed on the shared analyzer
MaxCalls == 3

\* classical generations in one SpecClassical behaviour
MaxProduce == 3

\* number of full_comparison calls in one behaviour of SpecPair
MaxCompare == 2

(***************************************************************************)
(* Generic helpers.                                                        *)
(***************************************************************************)
Abs(x) == IF x < 0 THEN -x ELSE x

Max2(a, b) == IF a >= b THEN a ELSE b

Min2(a, b) == IF a <= b THEN a ELSE b

Raise(kind) == [raised |-> kind]

IsRaised(r) == "raised" \in DOMAIN r

\* dict.get(key, default)
Get(d, key, default) == IF key \in DOMAIN d THEN d[key] ELSE default

\* F applied to the value of v, v being computed once
Bind(v, F(_)) == CHOOSE r \in {F(x) : x \in {v}} : TRUE

\* a/c < d/b for naturals a, d and positive c, b, by the Euclidean algorithm
\* (no product is formed, so nothing overflows)
RECURSIVE FracLess(_, _, _, _)
FracLess(a, c, d, b) ==
    LET q1 == a \div c
        q2 == d \div b
        r1 == a % c
        r2 == d % b
    IN  IF q1 # q2 THEN q1 < q2
        ELSE IF r2 = 0 THEN FALSE
        ELSE IF r1 = 0 THEN TRUE
        ELSE FracLess(b, r2, c, r1)

\* a*b < c*d for naturals
ProdLess(a, b, c, d) ==
    IF c = 0 \/ d = 0 THEN FALSE
    ELSE IF a = 0 \/ b = 0 THEN TRUE
    ELSE FracLess(a, c, d, b)

\* round(num/den) to the nearest integer, ties to even (Python's round)
RoundHalfEven(num, den) ==
    LET q == num \div den
        r == num % den
    IN  IF 2 * r < den THEN q
        ELSE IF 2 * r > den THEN q + 1
        ELSE IF q % 2 = 0 THEN q ELSE q + 1

\* round(k*num/den) for an even k, the whole part of num/den scaled apart
\* from the remainder so that k*num is never formed
RoundScaled(k, num, den) ==
    k * (num \div den) + RoundHalfEven(k * (num % den), den)

RECURSIVE Pow(_, _)
Pow(b, e) == IF e = 0 THEN 1 ELSE b * Pow(b, e - 1)

\* str.count(c)
Count(s, c) == Cardinality({i \in DOMAIN s : s[i] = c})

\* int(b) for a binary character
BitOf(c) == IF c = "1" THEN 1 ELSE 0

RECURSIVE Repeat(_, _)
Repeat(c, n) == IF n = 0 THEN <<>> ELSE <<c>> \o Repeat(c, n - 1)

(***************************************************************************)
(* EntropyAnalyzer                                                         *)
(***************************************************************************)
\* EntropyAnalyzer.__init__: self.test_results = {}
EntropyAnalyzer == [test_results |-> <<>>]

\* quality bands shared by all tests: the first band that holds
Quality(excellent, good, passed) ==
    IF excellent THEN "Excellent"
    ELSE IF good THEN "Good"
    ELSE IF passed THEN "Acceptable"
    ELSE "Poor"

\* abs(ones/n - 0.5) < 0.02 : 25*|2*ones - n| < n.  At the tie
\* (ones/n = 0.48 or 0.52) the float difference exceeds float 0.02.
DeviationBelow002(ones, n) == 25 * Abs(2 * ones - n) < n

\* abs(ones/n - 0.5) < 0.05 : 10*|2*ones - n| < n.  At the tie ones/n = 0.45
\* the float 0.45 - 0.5 is -0.04999999999999999, below float 0.05; at
\* ones/n = 0.55 the float difference exceeds it.
DeviationBelow005(ones, n) ==
    \/ 10 * Abs(2 * ones - n) < n
    \/ 20 * ones = 9 * n

\* frequency_test summing one category only: chi_square = (ones-n/2)^2/(n/2)
frequency_test_one_category(s) ==
    LET n == Len(s)
        ones == Count(s, "1")
        zeros == n - ones
        d2 == (ones - zeros) * (ones - zeros)
        passed == 25 * d2 < 192 * n
    IN  IF n = 0 THEN Raise("ZeroDivisionError")
        ELSE [test_name |-> "Frequency (Monobit) Test",
              ones_count |-> ones,
              zeros_count |-> zeros,
              chi_square_e4 |-> RoundHalfEven(10000 * d2, 2 * n),
              passed |-> passed,
              quality |-> Quality(DeviationBelow002(ones, n),
                                  DeviationBelow005(ones, n), passed)]

frequency_test(s) ==
    LET n == Len(s)
        ones == Count(s, "1")
        zeros == n - ones
        \* chi_square = ((ones-n/2)^2 + (zeros-n/2)^2)/(n/2) = (ones-zeros)^2/n
        d2 == (ones - zeros) * (ones - zeros)
        \* chi_square < 3.84
        passed == 25 * d2 < 96 * n
    IN  IF n = 0 THEN Raise("ZeroDivisionError")
        ELSE [test_name |-> "Frequency (Monobit) Test",
              ones_count |-> ones,
              zeros_count |-> zeros,
              chi_square_e4 |-> RoundScaled(10000, d2, n),
              passed |-> passed,
              quality |-> Quality(DeviationBelow002(ones, n),
                                  DeviationBelow005(ones, n), passed)]

\* runs_test counting the positions where the symbol changes, the first
\* block not counted
CountRuns_changes(s) == Cardinality({i \in 2..Len(s) : s[i] # s[i - 1]})

\* runs = 1 + number of adjacent positions holding different symbols
CountRuns(s) == 1 + Cardinality({i \in 2..Len(s) : s[i] # s[i - 1]})

\* abs(z_score) < num/den for the runs test, with a = 2*ones*(n-ones):
\* expected_runs = 1 + a/n, variance = a*(a-n)/(n*n*(n-1)), floored at 0.001
\* when <= 0;  (runs - expected_runs)^2 < (num/den)^2 * variance
RunsZBelow(runs, ones, n, num, den) ==
    LET a == 2 * ones * (n - ones)
        x == Abs(n * (runs - 1) - a)
    IN  IF a * (a - n) > 0
        THEN ProdLess(den * den * (n - 1) * x, x, num * num * a, a - n)
        ELSE \* variance = 0.001: x^2/n^2 < (num/den)^2 / 1000
             ProdLess(1000 * den * x, den * x, num * n, num * n)

\* runs_test without its all-identical guard: the variance floor then yields
\* z = 0 and a passing, fully computed result
runs_test_unguarded(s) ==
    LET n == Len(s)
        ones == Count(s, "1")
        runs == CountRuns(s)
        passed == RunsZBelow(runs, ones, n, 49, 25)
    IN  IF n = 0 THEN Raise("ZeroDivisionError")
        ELSE [test_name |-> "Runs Test",
              total_runs |-> runs,
              passed |-> passed,
              quality |-> Quality(RunsZBelow(runs, ones, n, 1, 1),
                                  RunsZBelow(runs, ones, n, 3, 2), passed)]

\* runs_test guarding the all-1s string only
runs_test_ones_guarded(s) ==
    IF s # <<>> /\ Count(s, "1") = Len(s)
    THEN [test_name |-> "Runs Test",
          passed |-> FALSE,
          error |-> "Bit string is all 0s or all 1s"]
    ELSE runs_test_unguarded(s)

runs_test(s) ==
    LET n == Len(s)
        ones == Count(s, "1")
        runs == CountRuns(s)
        passed == RunsZBelow(runs, ones, n, 49, 25)
    IN  IF n = 0 THEN Raise("ZeroDivisionError")
        ELSE IF ones = 0 \/ ones = n
        THEN [test_name |-> "Runs Test",
              passed |-> FALSE,
              error |-> "Bit string is all 0s or all 1s"]
        ELSE [test_name |-> "Runs Test",
              total_runs |-> runs,
              passed |-> passed,
              quality |-> Quality(RunsZBelow(runs, ones, n, 1, 1),
                                  RunsZBelow(runs, ones, n, 3, 2), passed)]

\* entropy > threshold, where H(p) = -p*log2(p) - (1-p)*log2(1-p) is symmetric
\* about 1/2 and increasing on [0, 1/2]: H(ones/n) > threshold iff
\* min(ones, n-ones)/n > cut/10^7 with cut/10^7 the 7-digit floor of the
\* root of H(p) = threshold (0.3160193 for 0.9, 0.3691277 for 0.95,
\* 0.4411976 for 0.99); no ratio with n <= 1024 falls between the floor and
\* the root.
EntropyAbove(ones, n, cut) ==
    ProdLess(cut, n, Min2(ones, n - ones), 10000000)

RECURSIVE GCD(_, _)
GCD(a, b) == IF b = 0 THEN a ELSE GCD(b, a % b)

\* the entropy H(p) of a string with ones 1s among n symbols.  H is symmetric
\* and strictly increasing on [0, 1/2], so it is kept as the fraction
\* p = min(ones, zeros)/n in lowest terms: <<0, 1>> is H = 0 and <<1, 2>> is
\* H = 1
EntropyOf(ones, n) ==
    LET k == Min2(ones, n - ones)
    IN  IF k <= 0 THEN <<0, 1>> ELSE <<k \div GCD(k, n), n \div GCD(k, n)>>

\* number of overlapping windows s[i:i+2] equal to <<a, b>>
PatternCount(s, a, b) ==
    Cardinality({i \in 1..(Len(s) - 1) : s[i] = a /\ s[i + 1] = b})

\* the block entropy of s, kept as what it is computed from: the counts of
\* the 2-bit patterns that occur, as a function from each count to the
\* number of patterns having it (the entropy of the symbols when s has
\* fewer than two of them)
BlockEntropyOf(s) ==
    LET pair_counts == [pair \in {"0", "1"} \X {"0", "1"} |->
                            PatternCount(s, pair[1], pair[2])]
        occurring == {pair \in DOMAIN pair_counts : pair_counts[pair] > 0}
    IN  IF Len(s) >= 2
        THEN [count \in {pair_counts[pair] : pair \in occurring} |->
                 Cardinality({pair \in occurring : pair_counts[pair] = count})]
        ELSE EntropyOf(Count(s, "1"), Len(s))

\* shannon_entropy_test passing only strings in which at least three of the
\* four 2-bit patterns occur
shannon_entropy_test_block(s) ==
    LET n == Len(s)
        ones == Count(s, "1")
        patterns == Cardinality({pair \in {"0", "1"} \X {"0", "1"} :
                                    PatternCount(s, pair[1], pair[2]) > 0})
        passed == EntropyAbove(ones, n, 3160193) /\ patterns >= 3
    IN  [test_name |-> "Shannon Entropy Test",
         entropy |-> EntropyOf(ones, n),
         block_entropy |-> BlockEntropyOf(s),
         passed |-> passed,
         quality |-> Quality(EntropyAbove(ones, n, 4411976),
                             EntropyAbove(ones, n, 3691277), passed)]

shannon_entropy_test(s) ==
    LET n == Len(s)
        ones == Count(s, "1")
        passed == EntropyAbove(ones, n, 3160193)
    IN  \* p1 = ones/n if ones > 0 else 0: the empty string divides nothing
        [test_name |-> "Shannon Entropy Test",
         entropy |-> EntropyOf(ones, n),
         block_entropy |-> BlockEntropyOf(s),
         passed |-> passed,
         quality |-> Quality(EntropyAbove(ones, n, 4411976),
                             EntropyAbove(ones, n, 3691277), passed)]

\* abs(round(count/total*100, 2) - 25) in hundredths of a percent
PatternDeviation(count, total) ==
    Abs(RoundHalfEven(10000 * count, total) - 2500)

\* serial_test accepting three characters
serial_test_three(s) ==
    LET n == Len(s)
        c00 == PatternCount(s, "0", "0")
        c01 == PatternCount(s, "0", "1")
        c10 == PatternCount(s, "1", "0")
        c11 == PatternCount(s, "1", "1")
        total_patterns == n - 1
        Sq(c) == (4 * c - total_patterns) * (4 * c - total_patterns)
        sum == Sq(c00) + Sq(c01) + Sq(c10) + Sq(c11)
        passed == 25 * sum < 781 * total_patterns
        max_deviation ==
            Max2(Max2(PatternDeviation(c00, total_patterns),
                      PatternDeviation(c01, total_patterns)),
                 Max2(PatternDeviation(c10, total_patterns),
                      PatternDeviation(c11, total_patterns)))
    IN  IF n < 3
        THEN [test_name |-> "Serial Test",
              passed |-> FALSE,
              error |-> "Need at least 4 bits for serial test"]
        ELSE [test_name |-> "Serial (2-bit Pattern) Test",
              pattern_counts |-> <<c00, c01, c10, c11>>,
              max_deviation |-> max_deviation,
              passed |-> passed,
              quality |-> Quality(max_deviation < 300, max_deviation < 500,
                                  passed)]

serial_test(s) ==
    LET n == Len(s)
        c00 == PatternCount(s, "0", "0")
        c01 == PatternCount(s, "0", "1")
        c10 == PatternCount(s, "1", "0")
        c11 == PatternCount(s, "1", "1")
        total_patterns == n - 1
        \* (count - expected)^2/expected = (4*count - total)^2/(4*total)
        Sq(c) == (4 * c - total_patterns) * (4 * c - total_patterns)
        sum == Sq(c00) + Sq(c01) + Sq(c10) + Sq(c11)
        \* chi_square < 7.81
        passed == 25 * sum < 781 * total_patterns
        max_deviation ==
            Max2(Max2(PatternDeviation(c00, total_patterns),
                      PatternDeviation(c01, total_patterns)),
                 Max2(PatternDeviation(c10, total_patterns),
                      PatternDeviation(c11, total_patterns)))
    IN  IF n < 4
        THEN [test_name |-> "Serial Test",
              passed |-> FALSE,
              error |-> "Need at least 4 bits for serial test"]
        ELSE [test_name |-> "Serial (2-bit Pattern) Test",
              pattern_counts |-> <<c00, c01, c10, c11>>,
              max_deviation |-> max_deviation,
              passed |-> passed,
              quality |-> Quality(max_deviation < 300, max_deviation < 500,
                                  passed)]

\* the loop of longest_run_test from position i on: <<max_run_ones,
\* max_run_zeros, current_run>> after the scan
RECURSIVE LongestRunScan(_, _, _, _, _)
LongestRunScan(s, i, max_run_ones, max_run_zeros, current_run) ==
    IF i > Len(s) THEN <<max_run_ones, max_run_zeros, current_run>>
    ELSE IF s[i] = s[i - 1]
    THEN LongestRunScan(s, i + 1, max_run_ones, max_run_zeros, current_run + 1)
    ELSE IF s[i - 1] = "1"
    THEN LongestRunScan(s, i + 1, Max2(max_run_ones, current_run),
                        max_run_zeros, 1)
    ELSE LongestRunScan(s, i + 1, max_run_ones,
                        Max2(max_run_zeros, current_run), 1)

\* max_run <= (num/2) * log2(n), i.e. 2^(2*max_run) <= n^num, for n^num and
\* 4^15 within the 32-bit integers of TLC (n <= 73 for num = 5)
RunWithinLog(max_run, n, num) ==
    max_run <= 15 /\ Pow(4, max_run) <= Pow(n, num)

\* longest_run_test without the step after its loop: the block that runs to
\* the end of the string is never counted
longest_run_test_no_last(s) ==
    LET n == Len(s)
        scan == LongestRunScan(s, 2, 0, 0, 1)
        max_run == Max2(scan[1], scan[2])
        passed == max_run <= 10 \/ RunWithinLog(max_run, n, 5)
    IN  IF n = 0 THEN Raise("IndexError")
        ELSE [test_name |-> "Longest Run Test",
              longest_run_ones |-> scan[1],
              longest_run_zeros |-> scan[2],
              longest_run_overall |-> max_run,
              passed |-> passed,
              quality |-> Quality(RunWithinLog(max_run, n, 3),
                                  RunWithinLog(max_run, n, 4), passed)]

longest_run_test(s) ==
    LET n == Len(s)
        scan == LongestRunScan(s, 2, 0, 0, 1)
        \* "Don't forget the last run"
        max_run_ones == IF s[n] = "1" THEN Max2(scan[1], scan[3]) ELSE scan[1]
        max_run_zeros == IF s[n] = "1" THEN scan[2] ELSE Max2(scan[2], scan[3])
        max_run == Max2(max_run_ones, max_run_zeros)
        \* threshold = max(2.5*log2(n), 10)
        passed == max_run <= 10 \/ RunWithinLog(max_run, n, 5)
    IN  IF n = 0 THEN Raise("IndexError")
        ELSE [test_name |-> "Longest Run Test",
              longest_run_ones |-> max_run_ones,
              longest_run_zeros |-> max_run_zeros,
              longest_run_overall |-> max_run,
              passed |-> passed,
              quality |-> Quality(RunWithinLog(max_run, n, 3),
                                  RunWithinLog(max_run, n, 4), passed)]

\* n*n*autocorr_sum = sum over i of (n*bits[i] - ones)*(n*bits[i+lag] - ones)
RECURSIVE AutocorrSum(_, _, _, _)
AutocorrSum(s, ones, lag, i) ==
    IF i + lag > Len(s) THEN 0
    ELSE (Len(s) * BitOf(s[i]) - ones) * (Len(s) * BitOf(s[i + lag]) - ones)
         + AutocorrSum(s, ones, lag, i + 1)

\* abs(z_score) < num/den for the autocorrelation test: with
\* t = n*n*autocorr_sum and variance = ones*(n-ones)/(n*n),
\* autocorrelation = t/((n-lag)*ones*(n-ones)) and z = autocorrelation*sqrt(n)
AutocorrZBelow(t, ones, n, lag, num, den) ==
    LET d == (n - lag) * ones * (n - ones)
    IN  ProdLess(den * den * n * Abs(t), Abs(t), num * num * d, d)

\* autocorrelation_test without its zero-variance guard: the division by
\* (n - lag) * variance then raises on an all-identical string
autocorrelation_test_unguarded(s, lag) ==
    LET n == Len(s)
        ones == Count(s, "1")
        t == AutocorrSum(s, ones, lag, 1)
        passed == AutocorrZBelow(t, ones, n, lag, 49, 25)
    IN  IF n < lag + 10
        THEN [test_name |-> "Autocorrelation Test",
              passed |-> FALSE,
              error |-> "Need at least " \o ToString(lag + 10)
                        \o " bits for autocorrelation test"]
        ELSE IF ones = 0 \/ ones = n
        THEN Raise("ZeroDivisionError")
        ELSE [test_name |-> "Autocorrelation Test (lag=" \o ToString(lag) \o ")",
              lag |-> lag,
              passed |-> passed,
              quality |-> Quality(AutocorrZBelow(t, ones, n, lag, 1, 1),
                                  AutocorrZBelow(t, ones, n, lag, 3, 2),
                                  passed)]

\* autocorrelation_test looking at the variance before the length
autocorrelation_test_variance_first(s, lag) ==
    LET n == Len(s)
        ones == Count(s, "1")
        t == AutocorrSum(s, ones, lag, 1)
        passed == AutocorrZBelow(t, ones, n, lag, 49, 25)
    IN  IF n > 0 /\ (ones = 0 \/ ones = n)
        THEN [test_name |-> "Autocorrelation Test",
              passed |-> FALSE,
              error |-> "Zero variance in bit string"]
        ELSE IF n < lag + 10
        THEN [test_name |-> "Autocorrelation Test",
              passed |-> FALSE,
              error |-> "Need at least " \o ToString(lag + 10)
                        \o " bits for autocorrelation test"]
        ELSE [test_name |-> "Autocorrelation Test (lag=" \o ToString(lag) \o ")",
              lag |-> lag,
              passed |-> passed,
              quality |-> Quality(AutocorrZBelow(t, ones, n, lag, 1, 1),
                                  AutocorrZBelow(t, ones, n, lag, 3, 2),
                                  passed)]

autocorrelation_test(s, lag) ==
    LET n == Len(s)
        ones == Count(s, "1")
        t == AutocorrSum(s, ones, lag, 1)
        passed == AutocorrZBelow(t, ones, n, lag, 49, 25)
    IN  IF n < lag + 10
        THEN [test_name |-> "Autocorrelation Test",
              passed |-> FALSE,
              error |-> "Need at least " \o ToString(lag + 10)
                        \o " bits for autocorrelation test"]
        ELSE IF ones = 0 \/ ones = n
        THEN \* variance == 0
             [test_name |-> "Autocorrelation Test",
              passed |-> FALSE,
              error |-> "Zero variance in bit string"]
        ELSE [test_name |-> "Autocorrelation Test (lag=" \o ToString(lag) \o ")",
              lag |-> lag,
              passed |-> passed,
              quality |-> Quality(AutocorrZBelow(t, ones, n, lag, 1, 1),
                                  AutocorrZBelow(t, ones, n, lag, 3, 2),
                                  passed)]

\* minimum length analyze_randomness accepts
MinBits == 20

\* the lag every call site of autocorrelation_test uses (its default)
DefaultLag == 1

\* keys of results['tests'], in the order analyze_randomness fills them
TestOrder ==
    <<"frequency", "runs", "shannon_entropy", "serial", "longest_run",
      "autocorrelation">>

\* results['tests'] after "Run all tests"
RunAllTests(s) ==
    [frequency |-> frequency_test(s),
     runs |-> runs_test(s),
     shannon_entropy |-> shannon_entropy_test(s),
     serial |-> serial_test(s),
     longest_run |-> longest_run_test(s),
     autocorrelation |-> autocorrelation_test(s, DefaultLag)]

\* sum(1 for test in results['tests'].values() if test.get('passed', False))
PassedTests(tests) ==
    Cardinality({k \in DOMAIN tests : Get(tests[k], "passed", FALSE)})

\* round((passed_tests / total_tests) * 100, 1), in tenths of a percent
OverallScore(passed_tests, total_tests) ==
    RoundHalfEven(1000 * passed_tests, total_tests)

\* the banding with strict comparisons
Verdict_strict(overall_score) ==
    IF overall_score > 800 THEN "HIGH QUALITY"
    ELSE IF overall_score > 500 THEN "MODERATE QUALITY"
    ELSE "LOW QUALITY"

Verdict(overall_score) ==
    IF overall_score >= 800 THEN "HIGH QUALITY"
    ELSE IF overall_score >= 500 THEN "MODERATE QUALITY"
    ELSE "LOW QUALITY"

\* a validation that looks at the first character only
InvalidBitString_first(s) == s = <<>> \/ s[1] \notin {"0", "1"}

\* not bit_string or not all(c in '01' for c in bit_string)
InvalidBitString(s) == s = <<>> \/ \E i \in DOMAIN s : s[i] \notin {"0", "1"}

\* the first test, in call order, that raises (0 when none does)
FirstRaised(tests) ==
    IF \E i \in DOMAIN TestOrder : IsRaised(tests[TestOrder[i]])
    THEN CHOOSE i \in DOMAIN TestOrder :
            /\ IsRaised(tests[TestOrder[i]])
            /\ \A j \in 1..(i - 1) : ~IsRaised(tests[TestOrder[j]])
    ELSE 0

\* the body of analyze_randomness, which reads and writes nothing of self:
\* the value returned (or raised) and the tests that were called
AnalyzeBody(s) ==
    IF InvalidBitString(s)
    THEN [ran |-> <<>>,
          result |-> [error |-> "Invalid bit string. Must contain only 0s and 1s."]]
    ELSE IF Len(s) < MinBits
    THEN [ran |-> <<>>,
          result |-> [error |-> "Bit string too short. Need at least 20 bits for meaningful analysis."]]
    ELSE Bind(RunAllTests(s), LAMBDA tests :
         LET raised == FirstRaised(tests)
             passed_tests == PassedTests(tests)
             total_tests == Cardinality(DOMAIN tests)
             overall_score == OverallScore(passed_tests, total_tests)
         IN  IF raised # 0
             THEN [ran |-> SubSeq(TestOrder, 1, raised),
                   result |-> tests[TestOrder[raised]]]
             ELSE [ran |-> TestOrder,
                   result |-> [bit_string_length |-> Len(s),
                               tests |-> tests,
                               overall_score |-> overall_score,
                               passed_tests |-> passed_tests,
                               total_tests |-> total_tests,
                               verdict |-> Verdict(overall_score)]])

\* analyze_randomness keeping the last report in self.test_results and
\* returning it to every later call
analyze_randomness_cached(self, s) ==
    IF self.test_results # <<>>
    THEN [self |-> self, ran |-> <<>>, result |-> self.test_results[1]]
    ELSE [self |-> [test_results |-> <<AnalyzeBody(s).result>>],
          ran |-> AnalyzeBody(s).ran,
          result |-> AnalyzeBody(s).result]

\* EntropyAnalyzer.analyze_randomness(self, bit_string): the instance after the
\* call (self.test_results is never touched), the value returned (or raised)
\* and the tests that were called
analyze_randomness(self, s) ==
    Bind(AnalyzeBody(s), LAMBDA body :
         [self |-> self, ran |-> body.ran, result |-> body.result])

(***************************************************************************)
(* Inputs of analyze.                                                      *)
(***************************************************************************)
\* periods the input strings are built from
Patterns ==
    {<<"0">>, <<"1">>, <<"0", "1">>, <<"0", "0", "1">>,
     <<"0", "0", "1", "1">>, <<"0", "1", "1", "0", "1">>}

\* the first n characters of p repeated
Cycle(p, n) == [i \in 1..n |-> p[((i - 1) % Len(p)) + 1]]

\* s with one character replaced by a non-binary one: mode 1 the first,
\* mode 2 the last, mode 3 the one at position MinBits; mode 0 leaves s alone
Corrupt(s, mode) ==
    LET at == CASE mode = 1 -> 1
                [] mode = 2 -> Len(s)
                [] mode = 3 -> MinBits
                [] OTHER -> 0
    IN  IF at \in DOMAIN s THEN [s EXCEPT ![at] = "x"] ELSE s

(***************************************************************************)
(* Spec: one analyze call on a fresh analyzer, over a wide family of       *)
(* inputs (two periodic stretches of at most MaxLen characters together,   *)
(* possibly with one non-binary character).                                *)
(***************************************************************************)
Init ==
    /\ pc = "ready"
    /\ analyzer = EntropyAnalyzer
    /\ \E p \in Patterns, q \in Patterns, a \in 0..MaxLen, mode \in 0..3 :
         \E b \in 0..(MaxLen - a) :
            bit_string = Corrupt(Cycle(p, a) \o Cycle(q, b), mode)
    /\ report = <<>>
    /\ ran = <<>>
    /\ calls = <<>>
    /\ returns = <<>>
    /\ last_lag = DefaultLag
    /\ comparator = <<>>
    /\ request = <<>>
    /\ result = <<>>
    /\ response = <<>>
    /\ source_calls = <<>>
    /\ produced = <<>>
    /\ threads = <<>>
    /\ comparisons = <<>>
    /\ IBM_AVAILABLE = TRUE
    /\ frame = <<>>
    /\ crypto_calls = <<>>

\* analyze(bit_string), as the /api/analyze-entropy handler and
\* compare_entropy call it
Analyze ==
    /\ pc = "ready"
    /\ LET call == analyze_randomness(analyzer, bit_string)
       IN  /\ analyzer' = call.self
           /\ report' = call.result
           /\ ran' = call.ran
    /\ pc' = "done"
    /\ UNCHANGED <<bit_string, calls, returns, last_lag>>
    /\ UNCHANGED comparatorVars

Next == Analyze

Spec == Init /\ [][Next]_vars

(***************************************************************************)
(* Claims about a single analyze call (checked under Spec).                *)
(***************************************************************************)
IsBinary(s) == \A i \in DOMAIN s : s[i] \in {"0", "1"}

AllIdentical(s) == \A i \in DOMAIN s : s[i] = s[1]

\* the call returned an AnalysisReport (not a top-level error, not a raise)
IsReport(r) == DOMAIN r =
    {"bit_string_length", "tests", "overall_score", "passed_tests",
     "total_tests", "verdict"}

IsInvalidInput(r) ==
    /\ "error" \in DOMAIN r
    /\ r.error = "Invalid bit string. Must contain only 0s and 1s."

IsInsufficientLength(r) ==
    /\ "error" \in DOMAIN r
    /\ r.error = "Bit string too short. Need at least 20 bits for meaningful analysis."

TestKeys ==
    {"frequency", "runs", "shannon_entropy", "serial", "longest_run",
     "autocorrelation"}

\* C1: for every string over {0,1} of length >= 20 analyze returns a report
\* without raising, with total_tests = 6, 0 <= passed_tests <= total_tests
\* and 0 <= overall_score <= 100 (overall_score is kept in tenths).
C1_ValidInputYieldsBoundedReport ==
    (pc = "done" /\ IsBinary(bit_string) /\ Len(bit_string) >= 20) =>
        /\ ~IsRaised(report)
        /\ IsReport(report)
        /\ report.total_tests = 6
        /\ 0 <= report.passed_tests
        /\ report.passed_tests <= report.total_tests
        /\ 0 <= report.overall_score
        /\ report.overall_score <= 1000

\* an all-one string of 21 characters was analyzed and a report came back
C1_Witness ==
    /\ pc = "done"
    /\ bit_string = Repeat("1", 21)
    /\ IsReport(report)
    /\ report.total_tests = 6

\* C2 as stated: InvalidInput exactly when some character is outside {0,1},
\* InsufficientLength exactly when every character is binary and the length
\* is below 20 (the empty string included); either way a single top-level
\* error and none of the six tests run.
C2_Original ==
    pc = "done" =>
        /\ IsInvalidInput(report) <=> ~IsBinary(bit_string)
        /\ IsInsufficientLength(report) <=>
              (IsBinary(bit_string) /\ Len(bit_string) < 20)
        /\ "error" \in DOMAIN report =>
              (DOMAIN report = {"error"} /\ ran = <<>>)

\* C2 amended: the empty string is rejected as InvalidInput, not as
\* InsufficientLength; InsufficientLength is for non-empty binary strings
\* shorter than 20.
C2_ValidationErrors ==
    pc = "done" =>
        /\ IsInvalidInput(report) <=>
              (bit_string = <<>> \/ ~IsBinary(bit_string))
        /\ IsInsufficientLength(report) <=>
              (bit_string # <<>> /\ IsBinary(bit_string) /\ Len(bit_string) < 20)
        /\ "error" \in DOMAIN report =>
              (DOMAIN report = {"error"} /\ ran = <<>>)

\* the empty string was analyzed and rejected as InvalidInput, no test run
C2_Witness ==
    /\ pc = "done"
    /\ bit_string = <<>>
    /\ IsInvalidInput(report)
    /\ DOMAIN report = {"error"}
    /\ ran = <<>>

\* a TestResult that records a reason instead of statistics
IsInapplicable(tr) == DOMAIN tr = {"test_name", "passed", "error"}

\* a TestResult that was computed in full
IsComputed(tr) == {"test_name", "passed", "quality"} \subseteq DOMAIN tr
                  /\ "error" \notin DOMAIN tr

\* C3: for a valid sequence of length >= 20 a degeneracy in one test stays in
\* that test's result (passed = false, reason recorded); the other tests are
\* computed, all six results are in the report, total_tests = 6, no raise.
\* With N >= 20 the degenerate tests are exactly Runs and Autocorrelation on
\* an all-identical sequence.
C3_DegeneracyIsolated ==
    (pc = "done" /\ IsBinary(bit_string) /\ Len(bit_string) >= 20) =>
        /\ IsReport(report)
        /\ DOMAIN report.tests = TestKeys
        /\ report.total_tests = 6
        /\ ran = TestOrder
        /\ \A k \in TestKeys :
              \/ IsComputed(report.tests[k])
              \/ IsInapplicable(report.tests[k]) /\ ~report.tests[k].passed
        /\ \A k \in {"frequency", "shannon_entropy", "serial", "longest_run"} :
              IsComputed(report.tests[k])
        /\ \A k \in {"runs", "autocorrelation"} :
              IsInapplicable(report.tests[k]) <=> AllIdentical(bit_string)

\* an all-zero string of 20 characters: Runs and Autocorrelation record a
\* reason, the other four tests are computed, six tests are counted
C3_Witness ==
    /\ pc = "done"
    /\ bit_string = Repeat("0", 20)
    /\ IsReport(report)
    /\ IsInapplicable(report.tests.runs)
    /\ IsInapplicable(report.tests.autocorrelation)
    /\ IsComputed(report.tests.frequency)
    /\ report.total_tests = 6

\* round(100*k/6, 1) in tenths, k = 0..6
ScoreOfPassed == <<0, 167, 333, 500, 667, 833, 1000>>

\* C4: passed_tests is the number of results with passed true, overall_score
\* is 100*passed_tests/6 to one decimal, and the verdict follows the bands:
\* HIGH iff score >= 80 (passed >= 5), MODERATE iff 50 <= score < 80
\* (passed in {3,4}), LOW otherwise (passed <= 2).
C4_ScoreAndVerdict ==
    (pc = "done" /\ IsReport(report)) =>
        LET passed == Cardinality({k \in TestKeys : report.tests[k].passed})
        IN  /\ report.passed_tests = passed
            /\ report.overall_score = ScoreOfPassed[passed + 1]
            /\ report.verdict = "HIGH QUALITY" <=> report.overall_score >= 800
            /\ report.verdict = "HIGH QUALITY" <=> passed >= 5
            /\ report.verdict = "MODERATE QUALITY" <=>
                  (report.overall_score >= 500 /\ report.overall_score < 800)
            /\ report.verdict = "MODERATE QUALITY" <=> passed \in {3, 4}
            /\ report.verdict = "LOW QUALITY" <=> passed <= 2
            /\ report.verdict \in
                  {"HIGH QUALITY", "MODERATE QUALITY", "LOW QUALITY"}

\* a report with exactly three tests passed: score 50.0, MODERATE QUALITY
C4_Witness ==
    /\ pc = "done"
    /\ IsReport(report)
    /\ report.passed_tests = 3
    /\ report.overall_score = 500
    /\ report.verdict = "MODERATE QUALITY"

(***************************************************************************)
(* SpecShared: up to MaxCalls analyze calls, one after the other, on the   *)
(* analyzer instance app.py creates once and shares between requests.      *)
(***************************************************************************)
\* the strings the requests carry
ProbeInputs ==
    {Repeat("0", 20),
     Cycle(<<"0", "1">>, 20),
     Cycle(<<"0", "0", "1", "1">>, 21),
     <<"0", "1">>,
     <<"0", "x">>,
     <<>>}

InitShared ==
    /\ pc = "idle"
    /\ analyzer = EntropyAnalyzer
    /\ bit_string = <<>>
    /\ report = <<>>
    /\ ran = <<>>
    /\ calls = <<>>
    /\ returns = <<>>
    /\ last_lag = DefaultLag
    /\ comparator = <<>>
    /\ request = <<>>
    /\ result = <<>>
    /\ response = <<>>
    /\ source_calls = <<>>
    /\ produced = <<>>
    /\ threads = <<>>
    /\ comparisons = <<>>
    /\ IBM_AVAILABLE = TRUE
    /\ frame = <<>>
    /\ crypto_calls = <<>>

\* one request: entropy_analyzer.analyze_randomness(s) on the shared instance
AnalyzeShared(s) ==
    /\ Len(calls) < MaxCalls
    /\ LET call == analyze_randomness(analyzer, s)
       IN  /\ analyzer' = call.self
           /\ report' = call.result
           /\ ran' = call.ran
           /\ returns' = Append(returns, call.result)
    /\ bit_string' = s
    /\ calls' = Append(calls, s)
    /\ pc' = "returned"
    /\ UNCHANGED <<last_lag, comparatorVars>>

NextShared == \E s \in ProbeInputs : AnalyzeShared(s)

SpecShared == InitShared /\ [][NextShared]_vars

\* C5: analyze is idempotent and history-free: on the shared analyzer, two
\* calls with the same sequence return identical results whatever calls were
\* made before or between them, and each result is the one a fresh analyzer
\* gives for that sequence.
C5_IdempotentHistoryFree ==
    /\ \A i \in DOMAIN calls, j \in DOMAIN calls :
          calls[i] = calls[j] => returns[i] = returns[j]
    /\ \A i \in DOMAIN calls :
          returns[i] = analyze_randomness(EntropyAnalyzer, calls[i]).result

\* the same valid sequence analyzed twice with another sequence in between,
\* with the same report both times
C5_Witness ==
    /\ Len(calls) = 3
    /\ calls[1] = Cycle(<<"0", "1">>, 20)
    /\ calls[2] = Repeat("0", 20)
    /\ calls[3] = calls[1]
    /\ IsReport(returns[1])
    /\ returns[2] # returns[1]
    /\ returns[3] = returns[1]

(***************************************************************************)
(* RandomnessComparator: the classical source.                             *)
(*                                                                         *)
(* self.classical_rng is one random.Random() per comparator.  Its Mersenne *)
(* Twister is kept as a deterministic generator over RngModulus states:    *)
(* the state decides every later output, seed(s) sets the state to a       *)
(* function of s alone, and construction draws the state from the          *)
(* operating system.  The field origin is bookkeeping: where the current   *)
(* state comes from ("entropy" after construction, <<"seed", s>> after     *)
(* seed(s)).                                                               *)
(***************************************************************************)
\* number of states of the generator standing for MT19937
RngModulus == 16

\* random.Random(): seeded from operating-system entropy
RngFromEntropy(x) == [state |-> x, origin |-> <<"entropy">>]

\* self.classical_rng.seed(seed)
RngSeed(rng, seed) == [state |-> seed % RngModulus, origin |-> <<"seed", seed>>]

\* the state that follows state x
NextState(x) == (5 * x + 3) % RngModulus

\* the state n steps after state x
RECURSIVE StateAfter(_, _)
StateAfter(x, n) == IF n <= 0 THEN x ELSE StateAfter(NextState(x), n - 1)

\* the generator after one randint(0, 1)
RngStep(rng) == [rng EXCEPT !.state = NextState(rng.state)]

\* the bit that randint(0, 1) returns in state x, as a character
BitAt(x) == IF NextState(x) >= RngModulus \div 2 THEN "1" ELSE "0"

\* the bit that randint(0, 1) returns, as a character
RngBit(rng) == BitAt(rng.state)

\* ''.join(str(self.classical_rng.randint(0, 1)) for _ in range(length)):
\* the generator afterwards and the bits
RngDraw(rng, length) ==
    [rng |-> [rng EXCEPT !.state = StateAfter(rng.state, length)],
     bits |-> [i \in 1..length |-> BitAt(StateAfter(rng.state, i - 1))]]

HexDigits ==
    <<"0", "1", "2", "3", "4", "5", "6", "7",
      "8", "9", "A", "B", "C", "D", "E", "F">>

RECURSIVE StripLeadingZeros(_)
StripLeadingZeros(bits) ==
    IF bits # <<>> /\ Head(bits) = "0" THEN StripLeadingZeros(Tail(bits))
    ELSE bits

\* str.zfill(width)
ZFill(s, width) ==
    IF Len(s) >= width THEN s ELSE Repeat("0", width - Len(s)) \o s

\* the hex digits of a bit string whose length is a multiple of 4
RECURSIVE NibblesToHex(_)
NibblesToHex(bits) ==
    IF bits = <<>> THEN <<>>
    ELSE <<HexDigits[8 * BitOf(bits[1]) + 4 * BitOf(bits[2])
                     + 2 * BitOf(bits[3]) + BitOf(bits[4]) + 1]>>
         \o NibblesToHex(SubSeq(bits, 5, Len(bits)))

\* hex(int(bits, 2))[2:].upper(): no leading zero digits, "0" for zero
HexOfInt(bits) ==
    LET significant == StripLeadingZeros(bits)
    IN  IF significant = <<>> THEN <<"0">>
        ELSE NibblesToHex(ZFill(significant, 4 * ((Len(significant) + 3) \div 4)))

\* hex(int(bits, 2))[2:].upper().zfill(length // 4) if length >= 4 else ''
\* (int('', 2) raises ValueError)
HexValue(bits, length) ==
    IF length < 4 THEN <<>>
    ELSE IF bits = <<>> THEN Raise("ValueError")
    ELSE ZFill(HexOfInt(bits), length \div 4)

\* elapsed wall-clock time is counted in ticks of 0.0001 ms
TicksPerMicrosecond == 10

\* max(generation_time, 0.001), in ticks
FlooredTime(elapsed) == Max2(elapsed, TicksPerMicrosecond)

\* round(generation_time, 3): milliseconds to three decimals, i.e. microseconds
RoundedMicroseconds(ticks) == RoundHalfEven(ticks, TicksPerMicrosecond)

\* round(length / generation_time, 2), in hundredths of a bit per millisecond
BitsPerMs(length, ticks) ==
    RoundHalfEven(100 * length * 1000 * TicksPerMicrosecond, ticks)

\* the record generate_classical_random returns
ClassicalRecord(bits, length, seed, elapsed) ==
    LET generation_time == FlooredTime(elapsed)
    IN  [method |-> "Classical PRNG",
         algorithm |-> "Mersenne Twister (MT19937)",
         binary |-> bits,
         hex |-> HexValue(bits, length),
         length |-> length,
         generation_time_ms |-> RoundedMicroseconds(generation_time),
         bits_per_ms |-> IF generation_time > 0
                         THEN BitsPerMs(length, generation_time) ELSE 0,
         seed_used |-> seed # <<>>,
         deterministic |-> TRUE,
         source |-> "Mathematical algorithm",
         cryptographic_strength |-> "weak"]

\* generate_classical_random without its reseeding step (lines 41-42)
generate_classical_random_unseeded(rng, length, seed, elapsed) ==
    Bind(RngDraw(rng, length), LAMBDA drawn :
         [rng |-> drawn.rng,
          result |-> ClassicalRecord(drawn.bits, length, seed, elapsed)])

\* RandomnessComparator.generate_classical_random(length, seed) run without
\* interruption on the generator rng, taking elapsed ticks: the generator
\* afterwards and the record returned
generate_classical_random(rng, length, seed, elapsed) ==
    Bind(RngDraw(IF seed # <<>> THEN RngSeed(rng, seed[1]) ELSE rng, length),
         LAMBDA drawn :
         [rng |-> drawn.rng,
          result |-> ClassicalRecord(drawn.bits, length, seed, elapsed)])

(***************************************************************************)
(* IBMQuantumManager, as far as the comparator uses it.  None is the       *)
(* string "None"; what the IBM service does (the backends it lists, the    *)
(* fate of a job, the measured bits) is the parameter env.                 *)
(***************************************************************************)
None == "None"

\* Python truth value of an optional string
Falsy(x) == x = None \/ x = ""

\* IBMQuantumManager.__init__
IBMQuantumManager ==
    [service |-> None, connected |-> FALSE, current_backend |-> None,
     api_token |-> None]

\* the states of the manager when a comparison starts: fresh, connected
\* without a backend, connected with a selected backend
IBMManagerStates ==
    {IBMQuantumManager,
     [service |-> "service", connected |-> TRUE, current_backend |-> None,
      api_token |-> "token"],
     [service |-> "service", connected |-> TRUE, current_backend |-> "ibm_a",
      api_token |-> "token"]}

\* str(e) of an exception raised inside the IBM runtime
ErrorTexts == {"", "job failed"}

\* IBMQuantumManager.get_least_busy_backend(min_qubits): env.backends is
\* "raise", "empty" or the name of the least busy backend
get_least_busy_backend(self, min_qubits, env) ==
    IF ~self.connected \/ self.service = None
    THEN [self |-> self,
          result |-> [success |-> FALSE, error |-> "Not connected to IBM Quantum"]]
    ELSE IF env.backends = "raise"
    THEN [self |-> self, result |-> [success |-> FALSE, error |-> env.text]]
    ELSE IF env.backends = "empty"
    THEN [self |-> self,
          result |-> [success |-> FALSE,
                      error |-> IF min_qubits = 5
                                THEN "No operational backends with 5+ qubits available"
                                ELSE "No operational backends with enough qubits available"]]
    ELSE [self |-> [self EXCEPT !.current_backend = env.backends],
          result |-> [success |-> TRUE, backend |-> env.backends,
                      message |-> "Selected least busy backend"]]

\* IBMQuantumManager._run_on_ibm for a manager that is connected and has a
\* backend: env.run is "no_sampler", "raise", "no_counts" or "ok"
RunOnIbm(self, shots, env) ==
    IF env.run = "no_sampler"
    THEN [success |-> FALSE,
          error |-> "IBM Runtime Sampler primitive not available in this qiskit-ibm-runtime version.",
          detail |-> "SAMPLER_IMPORT_ERROR"]
    ELSE IF env.run = "raise"
    THEN [success |-> FALSE,
          error |-> env.text,
          hint |-> "IBM Quantum jobs can take several minutes. Try reducing shots or use simulator."]
    ELSE [success |-> TRUE, backend |-> self.current_backend, shots |-> shots,
          backend_type |-> "ibm_quantum", has_counts |-> env.run = "ok"]

\* min(max(int(shots), 1), 4000)
ClampShots(shots) == Min2(Max2(shots, 1), 4000)

\* the chunk loop of generate_secure_key on a connected manager with a
\* backend: the jobs before env.chunk succeed, job env.chunk ends as env.run
\* says, and when all jobs succeed the measured bits are env.binary
SecureKeyLoop(self, key_length, shots, env) ==
    LET chunks == (key_length + 7) \div 8
        clamped == ClampShots(shots)
        run == RunOnIbm(self, clamped, env)
    IN  IF chunks = 0
        THEN \* no job; int('', 2) raises
             [jobs |-> 0, result |-> Raise("ValueError")]
        ELSE IF ~run.success
        THEN [jobs |-> env.chunk,
              result |-> [f \in DOMAIN run \cup {"chunk_failed", "chunks_total"} |->
                            IF f = "chunk_failed" THEN env.chunk
                            ELSE IF f = "chunks_total" THEN chunks
                            ELSE run[f]]]
        ELSE IF ~run.has_counts
        THEN [jobs |-> env.chunk,
              result |-> [success |-> FALSE,
                          error |-> "Failed to extract measured bitstring from IBM Sampler result.",
                          chunk_failed |-> env.chunk,
                          chunks_total |-> chunks]]
        ELSE [jobs |-> chunks,
              result |-> [success |-> TRUE,
                          binary |-> env.binary,
                          hex |-> ZFill(HexOfInt(env.binary), key_length \div 4),
                          length |-> key_length,
                          chunks_generated |-> chunks,
                          shots_per_chunk |-> clamped,
                          backend_type |-> "ibm_quantum",
                          backend |-> self.current_backend]]

\* IBMQuantumManager.generate_secure_key(key_length, shots): the manager
\* afterwards, the value returned (or raised) and the number of jobs submitted
generate_secure_key(self, key_length, shots, env) ==
    IF ~self.connected \/ self.service = None
    THEN [self |-> self, jobs |-> 0,
          result |-> [success |-> FALSE,
                      error |-> "Not connected to IBM Quantum. Please connect first."]]
    ELSE Bind(get_least_busy_backend(self, 5, env), LAMBDA selected :
         IF self.current_backend = None /\ ~selected.result.success
         THEN [self |-> selected.self, jobs |-> 0, result |-> selected.result]
         ELSE Bind(IF self.current_backend = None THEN selected.self ELSE self,
                   LAMBDA mgr :
              Bind(SecureKeyLoop(mgr, key_length, shots, env), LAMBDA loop :
                   [self |-> mgr, jobs |-> loop.jobs, result |-> loop.result])))

(***************************************************************************)
(* RandomnessComparator: the quantum sources and the comparison.           *)
(*                                                                         *)
(* A comparator is the record of its four attributes.  quantum_generator   *)
(* is None or the name of the generator's class; ibm_manager is <<>> for   *)
(* None and <<m>> for a manager in state m.  Every operator returns the    *)
(* comparator afterwards (self), the value returned or raised (result) and *)
(* the calls it made to the sources (invoked).                             *)
(***************************************************************************)
\* RandomnessComparator.__init__(quantum_generator, ibm_manager)
RandomnessComparator(quantum_generator, ibm_manager, rng) ==
    [quantum_generator |-> quantum_generator,
     ibm_manager |-> ibm_manager,
     entropy_analyzer |-> EntropyAnalyzer,
     classical_rng |-> rng]

\* the methods of the classes a comparator is given as quantum_generator
MethodsOf(class) ==
    IF class = "QuantumRandomGenerator"
    THEN {"generate_single_bit", "generate_random_bits", "generate_secure_key",
          "_generate_histogram"}
    ELSE {}

\* _generate_quantum_random_simulator(length, shots)
_generate_quantum_random_simulator(self, length, shots, env) ==
    LET chunks == (length + 7) \div 8
        binary == SubSeq(env.raw_bits, 1, Min2(length, Len(env.raw_bits)))
        generation_time == FlooredTime(env.quantum_elapsed)
    IN  IF self.quantum_generator = None
        THEN [self |-> self,
              invoked |-> <<>>,
              result |-> [error |-> "Quantum simulator generator not available",
                          method |-> "Quantum"]]
        ELSE IF chunks > 0
                /\ "_generate_raw_bits" \notin MethodsOf(self.quantum_generator)
        THEN \* self.quantum_generator._generate_raw_bits: no such attribute
             [self |-> self,
              invoked |-> <<[source |-> "simulator", outcome |-> Raise("AttributeError")]>>,
              result |-> Raise("AttributeError")]
        ELSE [self |-> self,
              invoked |-> IF chunks > 0
                          THEN <<[source |-> "simulator", outcome |-> [binary |-> binary]]>>
                          ELSE <<>>,
              result |-> [method |-> "Quantum RNG",
                          algorithm |-> "Hadamard Gate Superposition (Qiskit Aer Simulator)",
                          binary |-> binary,
                          hex |-> HexValue(binary, length),
                          length |-> length,
                          generation_time_ms |-> RoundedMicroseconds(generation_time),
                          bits_per_ms |-> BitsPerMs(length, generation_time),
                          chunks_generated |-> chunks,
                          shots_per_chunk |-> shots,
                          deterministic |-> FALSE,
                          source |-> "Quantum mechanical uncertainty (simulated)",
                          backend_type |-> "simulator",
                          cryptographic_strength |-> "strong"]]

\* _generate_quantum_random_ibm(length, shots)
_generate_quantum_random_ibm(self, length, shots, env) ==
    IF self.ibm_manager = <<>>
    THEN [self |-> self,
          invoked |-> <<>>,
          result |-> [error |-> "IBM manager not available", method |-> "Quantum"]]
    ELSE Bind(generate_secure_key(self.ibm_manager[1], length, shots, env),
              LAMBDA call :
         LET ibm_result == call.result
             after == [self EXCEPT !.ibm_manager = <<call.self>>]
             invoked == <<[source |-> "ibm_hardware", outcome |-> ibm_result]>>
             generation_time == FlooredTime(env.quantum_elapsed)
         IN  IF IsRaised(ibm_result)
             THEN [self |-> after, invoked |-> invoked, result |-> ibm_result]
             ELSE IF ~Get(ibm_result, "success", FALSE)
             THEN [self |-> after,
                   invoked |-> invoked,
                   result |-> [error |-> Get(ibm_result, "error",
                                             "IBM hardware generation failed"),
                               method |-> "Quantum",
                               detail |-> Get(ibm_result, "detail", None),
                               hint |-> Get(ibm_result, "hint", None),
                               backend_type |-> "ibm_quantum"]]
             ELSE [self |-> after,
                   invoked |-> invoked,
                   result |-> [method |-> "Quantum RNG",
                               algorithm |-> "IBM Quantum Runtime Sampler (Real Hardware)",
                               binary |-> Get(ibm_result, "binary", <<>>),
                               hex |-> Get(ibm_result, "hex", <<>>),
                               length |-> length,
                               generation_time_ms |-> RoundedMicroseconds(generation_time),
                               bits_per_ms |-> BitsPerMs(length, generation_time),
                               chunks_generated |-> Get(ibm_result, "chunks_generated", 0),
                               shots_per_chunk |-> Get(ibm_result, "shots_per_chunk", shots),
                               deterministic |-> FALSE,
                               source |-> "IBM Quantum hardware",
                               backend_type |-> "ibm_quantum",
                               backend |-> Get(ibm_result, "backend", None),
                               cryptographic_strength |-> "strong"]])

\* a quantum source that is asked a second time when its first answer is a
\* failure
generate_quantum_random_retrying(self, length, mode, shots, env) ==
    LET Source(c) == IF mode = "ibm_hardware"
                     THEN _generate_quantum_random_ibm(c, length, shots, env)
                     ELSE _generate_quantum_random_simulator(c, length, shots, env)
    IN  Bind(Source(self), LAMBDA first :
             IF IsRaised(first.result) \/ "error" \in DOMAIN first.result
             THEN Bind(Source(first.self), LAMBDA second :
                       [second EXCEPT !.invoked = first.invoked \o second.invoked])
             ELSE first)

\* generate_quantum_random(length, mode, shots)
generate_quantum_random(self, length, mode, shots, env) ==
    IF mode = "ibm_hardware"
    THEN _generate_quantum_random_ibm(self, length, shots, env)
    ELSE _generate_quantum_random_simulator(self, length, shots, env)

\* the eight bits of a byte, most significant first
ByteBits(b) ==
    [i \in 1..8 |-> IF (b \div Pow(2, 8 - i)) % 2 = 1 THEN "1" ELSE "0"]

RECURSIVE BytesBits(_)
BytesBits(bytes) ==
    IF bytes = <<>> THEN <<>> ELSE ByteBits(Head(bytes)) \o BytesBits(Tail(bytes))

\* bin(int.from_bytes(random_bytes, 'big'))[2:].zfill(num_bytes * 8)[:length]
UrandomBinary(random_bytes, length) ==
    LET significant == StripLeadingZeros(BytesBits(random_bytes))
        digits == IF significant = <<>> THEN <<"0">> ELSE significant
        filled == ZFill(digits, 8 * Len(random_bytes))
    IN  SubSeq(filled, 1, Min2(Max2(length, 0), Len(filled)))

\* _simulate_quantum_random(length): env.urandom is what os.urandom returns
\* and env.fallback_elapsed the difference of the two time.time() readings
_simulate_quantum_random(self, length, env) ==
    LET binary == UrandomBinary(env.urandom, length)
        generation_time == env.fallback_elapsed
    IN  IF generation_time = 0
        THEN \* round(length / generation_time, 2)
             Raise("ZeroDivisionError")
        ELSE [method |-> "Quantum RNG (Simulated)",
              algorithm |-> "Hadamard Gate Superposition (Simulated with os.urandom)",
              binary |-> binary,
              hex |-> HexValue(binary, length),
              length |-> length,
              generation_time_ms |-> RoundedMicroseconds(generation_time),
              bits_per_ms |-> BitsPerMs(length, generation_time),
              deterministic |-> FALSE,
              source |-> "Quantum mechanical uncertainty (simulated)",
              note |-> "Simulated using cryptographic random when quantum simulator unavailable",
              cryptographic_strength |-> "strong"]

\* the five key metrics compare_entropy extracts from one analysis
KeyMetrics(analysis) ==
    [overall_score |-> Get(analysis, "overall_score", 0),
     verdict |-> Get(analysis, "verdict", "Unknown"),
     entropy |-> Get(Get(Get(analysis, "tests", <<>>), "shannon_entropy", <<>>),
                     "entropy", <<0, 1>>),
     passed_tests |-> Get(analysis, "passed_tests", 0),
     total_tests |-> Get(analysis, "total_tests", 0)]

\* the winner named after the source that failed the test
TestWinner_loser(c_passed, q_passed) ==
    IF c_passed /\ q_passed THEN "tie"
    ELSE IF c_passed THEN "quantum"
    ELSE IF q_passed THEN "classical"
    ELSE "neither"

\* "Determine winner for each test"
TestWinner(c_passed, q_passed) ==
    IF c_passed /\ q_passed THEN "tie"
    ELSE IF c_passed THEN "classical"
    ELSE IF q_passed THEN "quantum"
    ELSE "neither"

\* compare_entropy(classical_bits, quantum_bits)
compare_entropy(self, classical_bits, quantum_bits) ==
    Bind(analyze_randomness(self.entropy_analyzer, classical_bits).result,
         LAMBDA classical_analysis :
    Bind(analyze_randomness(self.entropy_analyzer, quantum_bits).result,
         LAMBDA quantum_analysis :
         IF IsRaised(classical_analysis) THEN classical_analysis
         ELSE IF IsRaised(quantum_analysis) THEN quantum_analysis
         ELSE [classical |-> KeyMetrics(classical_analysis),
               quantum |-> KeyMetrics(quantum_analysis),
               full_classical_analysis |-> classical_analysis,
               full_quantum_analysis |-> quantum_analysis,
               test_winners |->
                   IF "tests" \in DOMAIN classical_analysis
                      /\ "tests" \in DOMAIN quantum_analysis
                   THEN [test_name \in DOMAIN classical_analysis.tests |->
                           TestWinner(
                               Get(classical_analysis.tests[test_name], "passed", FALSE),
                               Get(Get(quantum_analysis.tests, test_name, <<>>),
                                   "passed", FALSE))]
                   ELSE <<>>]))

\* max(time, 0.1), in microseconds
SafeTime(time) == Max2(time, 100)

\* float('inf') as the default of a missing generation_time_ms
Infinity == 2147483647

\* the speed block with the faster source decided on the clamped times
SpeedComparison_clamped(classical_result, quantum_result, mode) ==
    LET classical_time == Get(classical_result, "generation_time_ms", 0)
        quantum_time == Get(quantum_result, "generation_time_ms", 0)
        safe_classical_time == Max2(classical_time, 100)
        safe_quantum_time == Max2(quantum_time, 100)
        ratio == RoundHalfEven(100 * safe_quantum_time, safe_classical_time)
    IN  [classical_time_ms |-> classical_time,
         quantum_time_ms |-> quantum_time,
         speed_ratio |-> ratio,
         faster |-> IF safe_classical_time < safe_quantum_time THEN "classical"
                    ELSE IF safe_quantum_time < safe_classical_time THEN "quantum"
                    ELSE "tie",
         message |-> IF safe_classical_time < safe_quantum_time
                     THEN <<"Classical is", ratio, "x faster">>
                     ELSE IF safe_quantum_time < safe_classical_time
                     THEN <<"Quantum is",
                            RoundHalfEven(100 * safe_classical_time, safe_quantum_time),
                            "x faster">>
                     ELSE <<"Both methods have similar speed">>,
         note |-> IF mode = "ibm_hardware"
                  THEN "IBM hardware includes remote queue + execution latency"
                  ELSE "Quantum simulator includes local circuit execution overhead"]

\* the speed block with the requested mode copied into its note
SpeedComparison_mode_note(classical_result, quantum_result, mode) ==
    [SpeedComparison_clamped(classical_result, quantum_result, mode)
        EXCEPT !.note = mode]

\* results['speed_comparison']; the ratios are in hundredths
SpeedComparison(classical_result, quantum_result, mode) ==
    LET classical_time == Get(classical_result, "generation_time_ms", 0)
        quantum_time == Get(quantum_result, "generation_time_ms", 0)
        safe_classical_time == SafeTime(classical_time)
        safe_quantum_time == SafeTime(quantum_time)
        ratio == RoundHalfEven(100 * safe_quantum_time, safe_classical_time)
    IN  [classical_time_ms |-> classical_time,
         quantum_time_ms |-> quantum_time,
         speed_ratio |-> ratio,
         faster |-> IF classical_time < quantum_time THEN "classical"
                    ELSE IF quantum_time < classical_time THEN "quantum"
                    ELSE "tie",
         message |-> IF classical_time < quantum_time
                     THEN <<"Classical is", ratio, "x faster">>
                     ELSE IF quantum_time < classical_time
                     THEN <<"Quantum is",
                            RoundHalfEven(100 * safe_classical_time, safe_quantum_time),
                            "x faster">>
                     ELSE <<"Both methods have similar speed">>,
         note |-> IF mode = "ibm_hardware"
                  THEN "IBM hardware includes remote queue + execution latency"
                  ELSE "Quantum simulator includes local circuit execution overhead"]

\* results['summary']
Summary(classical_result, quantum_result, results) ==
    LET entropy_comparison == Get(results, "entropy_comparison", <<>>)
        classical_score ==
            Get(Get(entropy_comparison, "classical", <<>>), "overall_score", 0)
        quantum_score ==
            Get(Get(entropy_comparison, "quantum", <<>>), "overall_score", 0)
    IN  [metrics |-> <<
            [metric |-> "Generation Speed",
             classical |-> <<Get(classical_result, "generation_time_ms", 0)>>,
             quantum |-> <<Get(quantum_result, "generation_time_ms", 0)>>,
             winner |-> IF Get(classical_result, "generation_time_ms", Infinity)
                           < Get(quantum_result, "generation_time_ms", Infinity)
                        THEN "classical" ELSE "quantum"],
            [metric |-> "Entropy Score",
             classical |-> <<classical_score>>,
             quantum |-> <<quantum_score>>,
             winner |-> IF quantum_score >= classical_score
                        THEN "quantum" ELSE "classical"],
            [metric |-> "Deterministic",
             classical |-> <<"Yes (same seed = same output)">>,
             quantum |-> <<"No (true randomness)">>,
             winner |-> "quantum"],
            [metric |-> "Cryptographic Use",
             classical |-> <<"Not suitable (MT19937 is predictable)">>,
             quantum |-> <<"Strong entropy source for keys">>,
             winner |-> "quantum"],
            [metric |-> "Reproducibility",
             classical |-> <<"Yes (useful for testing)">>,
             quantum |-> <<"No">>,
             winner |-> "depends"]>>]

\* results['security_comparison']
SecurityComparison ==
    [classical |-> [model |-> "Algorithmic PRNG (MT19937)",
                    predictability |-> "Predictable if internal state is recovered",
                    known_attack |-> "State recovery from 624 observed 32-bit outputs",
                    impact |-> "Future outputs become predictable after state compromise",
                    recommendation |-> "Do not use MT19937 directly for key generation"],
     quantum |-> [model |-> "Physical quantum measurement outcomes",
                  predictability |-> "No deterministic PRNG state to clone or rewind",
                  known_attack |-> "No MT-style state-recovery shortcut on randomness source",
                  impact |-> "Attacker is limited to brute force by key length",
                  recommendation |-> "Preferred entropy source for key material"],
     conclusion |-> "Quantum entropy removes the PRNG-state attack path"]

\* the report full_comparison builds from the two generation records
ComparisonReport(self, length, mode, shots, env, classical_result, quantum_result) ==
    LET classical_bits == Get(classical_result, "binary", <<>>)
        quantum_bits == Get(quantum_result, "binary", <<>>)
        head == [comparison_parameters |->
                     [bit_length |-> length, timestamp |-> env.timestamp,
                      mode |-> mode, shots |-> shots],
                 classical_generation |-> classical_result,
                 quantum_generation |-> quantum_result]
        blocks == [speed_comparison |->
                       SpeedComparison(classical_result, quantum_result, mode),
                   security_comparison |-> SecurityComparison]
    IN  IF classical_bits # <<>> /\ quantum_bits # <<>>
        THEN Bind(compare_entropy(self, classical_bits, quantum_bits),
                  LAMBDA entropy_comparison :
             IF IsRaised(entropy_comparison) THEN entropy_comparison
             ELSE head @@ blocks
                  @@ [entropy_comparison |-> entropy_comparison,
                      summary |-> Summary(classical_result, quantum_result,
                                          [entropy_comparison |-> entropy_comparison])])
        ELSE head @@ blocks
             @@ [summary |-> Summary(classical_result, quantum_result, <<>>)]

\* the modes in which a failed quantum source is replaced by the fallback
FallbackModes == {"simulator"}

\* full_comparison with the fallback taken in the given modes
Compare(self, length, mode, shots, env, fallback_modes) ==
    Bind(generate_classical_random(self.classical_rng, length, <<>>,
                                   env.classical_elapsed), LAMBDA classical :
    Bind(generate_quantum_random([self EXCEPT !.classical_rng = classical.rng],
                                 length, mode, shots, env), LAMBDA quantum :
         LET failed == /\ ~IsRaised(quantum.result)
                       /\ ~Falsy(Get(quantum.result, "error", None))
             substituted == failed /\ mode \in fallback_modes
         IN  Bind(IF substituted
                  THEN _simulate_quantum_random(quantum.self, length, env)
                  ELSE quantum.result, LAMBDA quantum_result :
                  [self |-> quantum.self,
                   invoked |-> <<[source |-> "classical", outcome |-> classical.result]>>
                               \o quantum.invoked
                               \o IF substituted
                                  THEN <<[source |-> "fallback",
                                          outcome |-> quantum_result]>>
                                  ELSE <<>>,
                   result |-> IF IsRaised(quantum_result) THEN quantum_result
                              ELSE ComparisonReport(quantum.self, length, mode, shots,
                                                    env, classical.result,
                                                    quantum_result)])))

\* full_comparison with the fallback taken in every mode
full_comparison_any_mode(self, length, mode, shots, env) ==
    Compare(self, length, mode, shots, env, {"simulator", "ibm_hardware"})

\* RandomnessComparator.full_comparison(length, mode, shots)
full_comparison(self, length, mode, shots, env) ==
    Compare(self, length, mode, shots, env, FallbackModes)

(***************************************************************************)
(* The service (app.py): GET /api/compare and POST /api/generate-classical *)
(* on the module-level comparator.  A request carries each parameter as    *)
(* <<>> (absent) or <<value>>.                                             *)
(***************************************************************************)
\* str(e) of the exceptions the comparator raises
ExceptionText(kind) ==
    IF kind = "AttributeError"
    THEN "'QuantumRandomGenerator' object has no attribute '_generate_raw_bits'"
    ELSE IF kind = "ZeroDivisionError" THEN "float division by zero"
    ELSE kind

\* request.args.get(name, default)
Arg(args, name, default) ==
    IF args[name] = <<>> THEN default ELSE args[name][1]

\* compare_random(): the comparator afterwards, what full_comparison returned
\* (<<>> when it was not called), the calls to the sources, and the response
compare_random(self, args, env) ==
    LET length == Arg(args, "length", 256)
        mode == Arg(args, "mode", "simulator")
        shots == Arg(args, "shots", 1024)
        ibm_manager == self.ibm_manager[1]
        ibm_shots == IF mode = "ibm_hardware" /\ args.shots = <<>> THEN 100 ELSE shots
        Rejected(body) == [self |-> self, result |-> <<>>, invoked |-> <<>>,
                           response |-> [status |-> 400, body |-> body]]
    IN  IF length < 32 \/ length > 1024
        THEN Rejected([success |-> FALSE,
                       error |-> "Length must be between 32 and 1024 bits"])
        ELSE IF mode \notin {"simulator", "ibm_hardware"}
        THEN Rejected([success |-> FALSE,
                       error |-> "mode must be 'simulator' or 'ibm_hardware'"])
        ELSE IF shots < 1 \/ shots > 4000
        THEN Rejected([success |-> FALSE,
                       error |-> "shots must be an integer between 1 and 4000"])
        ELSE IF mode = "ibm_hardware"
                /\ ~(ibm_manager.connected /\ ibm_manager.current_backend # None)
        THEN Rejected([success |-> FALSE,
                       error |-> "IBM hardware mode requires active IBM connection and selected backend",
                       hint |-> "Connect in IBM tab and select a backend first"])
        ELSE Bind(full_comparison(self, length, mode, ibm_shots, env), LAMBDA call :
             LET quantum_generation == Get(call.result, "quantum_generation", <<>>)
                 Answered(status, body) ==
                     [self |-> call.self, result |-> call.result,
                      invoked |-> call.invoked,
                      response |-> [status |-> status, body |-> body]]
             IN  IF IsRaised(call.result)
                 THEN Answered(500, [success |-> FALSE,
                                     error |-> ExceptionText(call.result.raised)])
                 ELSE IF ~Falsy(Get(quantum_generation, "error", None))
                 THEN Answered(400,
                               [success |-> FALSE,
                                error |-> Get(quantum_generation, "error", None),
                                detail |-> Get(quantum_generation, "detail", None),
                                hint |-> Get(quantum_generation, "hint", None)])
                 ELSE Answered(200, [success |-> TRUE, data |-> call.result]))

(***************************************************************************)
(* What the surroundings contribute to one comparison.                     *)
(***************************************************************************)
\* perf_counter differences of the classical generation, in ticks
ClassicalElapsed == {0, 26}

\* perf_counter differences of a classical generation that was preempted
\* (1.0 ms), in ticks
SlowClassicalElapsed == {10000}

\* perf_counter differences of the quantum generation, in ticks
QuantumElapsed == {3, 50000}

\* time.time() differences of the fallback, in ticks (0: both readings
\* equal, 2: they differ by one step of the clock's float value)
FallbackElapsed == {0, 2, 31}

ByteCycle == <<0, 172, 255, 83>>

\* os.urandom(n)
Urandom(n) ==
    {[i \in 1..n |-> ByteCycle[((i + k) % Len(ByteCycle)) + 1]] : k \in 0..3}
    \cup {[i \in 1..n |-> 0]}

\* the bit strings measured on the hardware
Measured(length) == {Cycle(p, length) : p \in {<<"0">>, <<"0", "0", "1", "1">>,
                                                <<"0", "1", "1", "0", "1">>}}

\* what the IBM service does during one generate_secure_key
IBMScenarios(length) ==
    LET chunks == (length + 7) \div 8
        Scenario(b, t, r, c, m) ==
            [backends |-> b, text |-> t, run |-> r, chunk |-> c, binary |-> m]
    IN  {Scenario("raise", t, "ok", 1, <<>>) : t \in ErrorTexts}
        \cup {Scenario("empty", "", "ok", 1, <<>>)}
        \cup {Scenario("ibm_b", "", r, c, <<>>) :
                 r \in {"no_sampler", "no_counts"}, c \in {1, Max2(chunks, 1)}}
        \cup {Scenario("ibm_b", t, "raise", c, <<>>) :
                 t \in ErrorTexts, c \in {1, Max2(chunks, 1)}}
        \cup {Scenario("ibm_b", "", "ok", Max2(chunks, 1), m) : m \in Measured(length)}

\* the surroundings of one full_comparison(length, mode)
Environments(length, mode) ==
    IF mode = "ibm_hardware"
    THEN {[timestamp |-> 1, classical_elapsed |-> ce, quantum_elapsed |-> qe,
           fallback_elapsed |-> 31, raw_bits |-> <<>>, urandom |-> <<>>]
          @@ s :
             ce \in ClassicalElapsed \cup SlowClassicalElapsed,
             qe \in QuantumElapsed, s \in IBMScenarios(length)}
    ELSE {[timestamp |-> 1, classical_elapsed |-> ce, quantum_elapsed |-> 3,
           fallback_elapsed |-> fe, raw_bits |-> <<>>, urandom |-> u,
           backends |-> "empty", text |-> "", run |-> "ok", chunk |-> 1,
           binary |-> <<>>] :
             ce \in ClassicalElapsed \cup SlowClassicalElapsed,
             fe \in FallbackElapsed,
             u \in Urandom((Max2(length, 0) + 7) \div 8)}

\* the comparators a comparison can find: built with or without a generator
\* and a manager, the generator fresh from operating-system entropy
Comparators(states) ==
    {RandomnessComparator(g, m, RngFromEntropy(x)) :
        g \in {None, "QuantumRandomGenerator"},
        m \in {<<>>} \cup {<<s>> : s \in IBMManagerStates},
        x \in states}

\* the generator states the comparisons start from
CompareStates == {0, 5, 10, 15}

\* the comparator of a freshly started service: app.py lines 25-30
ServiceComparators ==
    {RandomnessComparator("QuantumRandomGenerator", <<IBMQuantumManager>>,
                          RngFromEntropy(x)) : x \in 0..(RngModulus - 1)}

\* the comparator of app.py: comparator = RandomnessComparator(qrng, ibm_manager)
IsServiceComparator(self) ==
    self.quantum_generator = "QuantumRandomGenerator" /\ self.ibm_manager # <<>>

CompareLengths == {8, 32}

CompareRequests ==
    [length : {<<l>> : l \in CompareLengths},
     mode : {<<"simulator">>, <<"ibm_hardware">>},
     shots : {<<>>, <<50>>}]

\* requests the service rejects for their mode or shots
BadRequests ==
    {[length |-> <<32>>, mode |-> <<"hardware">>, shots |-> <<>>],
     [length |-> <<32>>, mode |-> <<>>, shots |-> <<4001>>]}

\* nothing has been requested yet of the comparator c
Idle(c) ==
    /\ pc = "idle"
    /\ analyzer = EntropyAnalyzer
    /\ bit_string = <<>>
    /\ report = <<>>
    /\ ran = <<>>
    /\ calls = <<>>
    /\ returns = <<>>
    /\ last_lag = DefaultLag
    /\ comparator = c
    /\ request = <<>>
    /\ result = <<>>
    /\ response = <<>>
    /\ source_calls = <<>>
    /\ produced = <<>>
    /\ threads = <<>>
    /\ comparisons = <<>>
    /\ IBM_AVAILABLE = TRUE
    /\ frame = <<>>
    /\ crypto_calls = <<>>

InitCompare == \E c \in Comparators(CompareStates) : Idle(c)

\* a direct call comparator.full_comparison(length, mode, shots)
FullComparison(args, env) ==
    /\ pc = "idle"
    /\ \E call \in {full_comparison(comparator, Arg(args, "length", 256),
                                     Arg(args, "mode", "simulator"),
                                     Arg(args, "shots", 1024), env)} :
           /\ comparator' = call.self
           /\ result' = call.result
           /\ source_calls' = call.invoked
    /\ request' = [via |-> "direct", args |-> args]
    /\ response' = <<>>
    /\ pc' = "compared"
    /\ UNCHANGED <<analyzer, bit_string, report, ran, calls, returns, last_lag,
                   produced, threads, comparisons, IBM_AVAILABLE, frame,
                   crypto_calls>>

\* GET /api/compare
CompareRandom(args, env) ==
    /\ pc = "idle"
    /\ IsServiceComparator(comparator)
    /\ \E served \in {compare_random(comparator, args, env)} :
           /\ comparator' = served.self
           /\ result' = served.result
           /\ source_calls' = served.invoked
           /\ response' = served.response
    /\ request' = [via |-> "api", args |-> args]
    /\ pc' = "compared"
    /\ UNCHANGED <<analyzer, bit_string, report, ran, calls, returns, last_lag,
                   produced, threads, comparisons, IBM_AVAILABLE, frame,
                   crypto_calls>>

NextCompare ==
    \/ \E args \in CompareRequests :
          \E env \in Environments(args.length[1], args.mode[1]) :
             FullComparison(args, env)
    \/ \E args \in CompareRequests \cup BadRequests :
          \E env \in Environments(Arg(args, "length", 256),
                                  Arg(args, "mode", "simulator")) :
             CompareRandom(args, env)

SpecCompare == InitCompare /\ [][NextCompare]_vars

(***************************************************************************)
(* Claims about the comparison (SpecCompare).                              *)
(***************************************************************************)
\* full_comparison was called and has ended (by returning or by raising)
Compared == pc = "compared" /\ result # <<>>

RequestedMode == Arg(request.args, "mode", "simulator")

RequestedLength == Arg(request.args, "length", 256)

\* the simulator source produced no record: the comparator has no generator
\* (error value) or the call into the generator raised
SimulatorSourceFailed ==
    /\ Compared
    /\ RequestedMode = "simulator"
    /\ \/ comparator.quantum_generator = None
       \/ \E i \in DOMAIN source_calls :
             /\ source_calls[i].source = "simulator"
             /\ IsRaised(source_calls[i].outcome)

\* C6: in simulator mode, whenever the quantum source fails (error value or
\* failing call into the generator), full_comparison does not fail and its
\* quantum_generation is the fallback record: method 'Quantum RNG
\* (Simulated)' and a binary string over {0,1} of exactly the requested length
C6_SimulatorFailureFallsBack ==
    SimulatorSourceFailed =>
        /\ ~IsRaised(result)
        /\ "quantum_generation" \in DOMAIN result
        /\ Get(result.quantum_generation, "method", None) = "Quantum RNG (Simulated)"
        /\ "binary" \in DOMAIN result.quantum_generation
        /\ Len(result.quantum_generation.binary) = RequestedLength
        /\ IsBinary(result.quantum_generation.binary)

\* the calls to the IBM source that returned a failure
FailedIbmCalls ==
    {i \in DOMAIN source_calls :
        /\ source_calls[i].source = "ibm_hardware"
        /\ ~IsRaised(source_calls[i].outcome)
        /\ ~Get(source_calls[i].outcome, "success", FALSE)}

\* the error, detail and hint of a record, None standing for a missing key
Surfaced(d) ==
    <<Get(d, "error", None), Get(d, "detail", None), Get(d, "hint", None)>>

\* C7: in ibm_hardware mode no substitute record is ever produced, and when
\* the IBM source returns a failure, quantum_generation has no binary and
\* carries the source's error, detail and hint unchanged; the service hands
\* the same three values to its caller (in the 400 response, or inside the
\* report when the error text is empty)
C7_IbmFailureSurfaced ==
    (Compared /\ RequestedMode = "ibm_hardware") =>
        /\ ~IsRaised(result)
        /\ \A i \in DOMAIN source_calls : source_calls[i].source # "fallback"
        /\ Get(result.quantum_generation, "method", None) # "Quantum RNG (Simulated)"
        /\ \A i \in FailedIbmCalls :
              LET returned == source_calls[i].outcome
                  quantum_generation == result.quantum_generation
              IN  /\ "binary" \notin DOMAIN quantum_generation
                  /\ "error" \in DOMAIN quantum_generation
                  /\ Surfaced(quantum_generation) = Surfaced(returned)
                  /\ request.via = "api" =>
                        IF returned.error # ""
                        THEN /\ response.status = 400
                             /\ ~response.body.success
                             /\ "data" \notin DOMAIN response.body
                             /\ Surfaced(response.body) = Surfaced(returned)
                        ELSE Surfaced(response.body.data.quantum_generation)
                                = Surfaced(returned)

\* the service was asked for an IBM comparison, the job raised "job failed",
\* and the caller got that text with the hint of the source
C7_Witness ==
    /\ Compared
    /\ RequestedMode = "ibm_hardware"
    /\ request.via = "api"
    /\ FailedIbmCalls # {}
    /\ \E i \in FailedIbmCalls :
          /\ source_calls[i].outcome.error = "job failed"
          /\ "hint" \in DOMAIN source_calls[i].outcome
          /\ response.body.hint = source_calls[i].outcome.hint
    /\ response.body.error = "job failed"
    /\ response.body.detail = None

(***************************************************************************)
(* SpecClassical: a sequence of POST /api/generate-classical requests,     *)
(* served one after the other by the service's comparator.                 *)
(***************************************************************************)
\* generate_classical(): the comparator afterwards, what
\* generate_classical_random returned (<<>> when it was not called), the
\* origin of the generator state the bits were drawn from, and the response
generate_classical(self, data, elapsed) ==
    LET length == Arg(data, "length", 256)
        seed == data.seed
    IN  IF length < 1 \/ length > 1024
        THEN [self |-> self, result |-> <<>>, origin |-> <<>>,
              response |-> [status |-> 400,
                            body |-> [success |-> FALSE,
                                      error |-> "Length must be between 1 and 1024"]]]
        ELSE Bind(generate_classical_random(self.classical_rng, length, seed, elapsed),
                  LAMBDA call :
                  [self |-> [self EXCEPT !.classical_rng = call.rng],
                   result |-> call.result,
                   origin |-> call.rng.origin,
                   response |-> [status |-> 200,
                                 body |-> [success |-> TRUE, data |-> call.result]]])

ClassicalLengths == {0, 3, 4, 5}

Seeds == {1, 2}

ClassicalRequests ==
    [length : {<<l>> : l \in ClassicalLengths},
     seed : {<<>>} \cup {<<s>> : s \in Seeds}]

InitClassical == \E c \in ServiceComparators : Idle(c)

\* POST /api/generate-classical
GenerateClassical(data, elapsed) ==
    /\ Len(produced) < MaxProduce
    /\ \E served \in {generate_classical(comparator, data, elapsed)} :
          /\ comparator' = served.self
          /\ result' = served.result
          /\ response' = served.response
          /\ produced' = IF served.result = <<>> THEN produced
                         ELSE Append(produced,
                                     [length |-> served.result.length,
                                      seed |-> data.seed,
                                      binary |-> served.result.binary,
                                      hex |-> served.result.hex,
                                      origin |-> served.origin])
    /\ request' = [via |-> "api", args |-> data]
    /\ pc' = "generated"
    /\ UNCHANGED <<analyzer, bit_string, report, ran, calls, returns, last_lag,
                   source_calls, threads, comparisons, IBM_AVAILABLE, frame,
                   crypto_calls>>

NextClassical ==
    \E data \in ClassicalRequests, elapsed \in ClassicalElapsed :
        GenerateClassical(data, elapsed)

SpecClassical == InitClassical /\ [][NextClassical]_vars

\* C8: any two generations with the same length and the same seed on the
\* comparator return the same binary and the same hex, whatever seeded or
\* unseeded generations were made before or between them
C8_SeededReproducible ==
    \A i, j \in DOMAIN produced :
        (/\ produced[i].seed # <<>>
         /\ produced[i].seed = produced[j].seed
         /\ produced[i].length = produced[j].length)
        => /\ produced[i].binary = produced[j].binary
           /\ produced[i].hex = produced[j].hex

\* seed 1 with 5 bits, then an unseeded generation that returns other bits,
\* then seed 1 with 5 bits again: the first and the third agree
C8_Witness ==
    /\ Len(produced) = 3
    /\ produced[1].seed = <<1>> /\ produced[3].seed = <<1>>
    /\ produced[1].length = 5 /\ produced[3].length = 5
    /\ produced[2].seed = <<>> /\ produced[2].length = 5
    /\ produced[2].binary # produced[1].binary
    /\ produced[3].binary = produced[1].binary
    /\ produced[3].hex = produced[1].hex
    /\ produced[1].hex # <<>>

\* C9: a generation without a seed draws its bits from generator state that
\* comes from process entropy, never from state fixed by the seed of an
\* earlier call
C9_UnseededDrawsFromEntropy ==
    \A i \in DOMAIN produced :
        produced[i].seed = <<>> => produced[i].origin = <<"entropy">>

(***************************************************************************)
(* SpecConcurrent: two requests served at the same time by two threads of  *)
(* the service, both inside generate_classical_random on the module-level  *)
(* comparator.  A thread can be preempted between any two calls it makes   *)
(* to the shared generator: the steps are the reading of the clock (line   *)
(* 39), the reseeding (41-42), each randint of the join (45) and the       *)
(* building of the record (47-65).  A thread with seed <<>> is the         *)
(* generation full_comparison makes (line 277).                            *)
(***************************************************************************)
Threads == {1, 2}

ThreadLengths == {2, 3}

ThreadRequests ==
    [length : ThreadLengths, seed : {<<>>} \cup {<<s>> : s \in Seeds}]

\* a request accepted by the service, about to enter generate_classical_random
Accepted(req) ==
    [at |-> "seed", length |-> req.length, seed |-> req.seed, bits |-> <<>>,
     result |-> <<>>]

InitConcurrent ==
    /\ pc = "serving"
    /\ analyzer = EntropyAnalyzer
    /\ bit_string = <<>>
    /\ report = <<>>
    /\ ran = <<>>
    /\ calls = <<>>
    /\ returns = <<>>
    /\ last_lag = DefaultLag
    /\ comparator \in ServiceComparators
    /\ request = <<>>
    /\ result = <<>>
    /\ response = <<>>
    /\ source_calls = <<>>
    /\ produced = <<>>
    /\ threads \in [Threads -> {Accepted(req) : req \in ThreadRequests}]
    /\ comparisons = <<>>
    /\ IBM_AVAILABLE = TRUE
    /\ frame = <<>>
    /\ crypto_calls = <<>>

\* lines 39-42: start_time is read and, if a seed is given, the shared
\* generator is reseeded
Reseed(t) ==
    /\ threads[t].at = "seed"
    /\ comparator' =
          IF threads[t].seed # <<>>
          THEN [comparator EXCEPT
                   !.classical_rng = RngSeed(comparator.classical_rng,
                                             threads[t].seed[1])]
          ELSE comparator
    /\ threads' = [threads EXCEPT ![t].at = "draw"]
    /\ UNCHANGED <<analyzerVars, request, result, response, source_calls, produced,
                   comparisons, IBM_AVAILABLE, frame,
                   crypto_calls>>

\* line 45, one element of the join: one randint(0, 1) on the shared generator
Randint(t) ==
    /\ threads[t].at = "draw"
    /\ comparator' =
          [comparator EXCEPT !.classical_rng = RngStep(comparator.classical_rng)]
    /\ threads' =
          [threads EXCEPT
              ![t].bits = Append(threads[t].bits, RngBit(comparator.classical_rng)),
              ![t].at = IF Len(threads[t].bits) + 1 >= threads[t].length
                        THEN "finish" ELSE "draw"]
    /\ UNCHANGED <<analyzerVars, request, result, response, source_calls, produced,
                   comparisons, IBM_AVAILABLE, frame,
                   crypto_calls>>

\* lines 47-65: the record is built and returned
Return(t, elapsed) ==
    /\ threads[t].at = "finish"
    /\ threads' =
          [threads EXCEPT
              ![t].result = ClassicalRecord(threads[t].bits, threads[t].length,
                                            threads[t].seed, elapsed),
              ![t].at = "done"]
    /\ UNCHANGED <<analyzerVars, comparator, request, result, response,
                   source_calls, produced, comparisons, IBM_AVAILABLE, frame,
                   crypto_calls>>

NextConcurrent ==
    \E t \in Threads :
        \/ Reseed(t)
        \/ Randint(t)
        \/ \E elapsed \in ClassicalElapsed : Return(t, elapsed)

SpecConcurrent == InitConcurrent /\ [][NextConcurrent]_vars

\* the binary a generation with this length and seed returns when no other
\* call touches the comparator while it runs
AloneBinary(length, seed) ==
    generate_classical_random(RngFromEntropy(0), length, seed, 0).result.binary

\* C10: when two generations run concurrently on the service's comparator,
\* each seeded one returns exactly the binary it returns when it runs alone
\* with its seed
C10_ConcurrentAsAlone ==
    \A t \in DOMAIN threads :
        (threads[t].at = "done" /\ threads[t].seed # <<>>)
        => threads[t].result.binary = AloneBinary(threads[t].length, threads[t].seed)

(***************************************************************************)
(* Claims about the blocks of the comparison report (SpecCompare).         *)
(***************************************************************************)
\* full_comparison returned a report whose two records both carry a
\* non-empty binary
BothBinariesPresent ==
    /\ Compared
    /\ ~IsRaised(result)
    /\ Get(result.classical_generation, "binary", <<>>) # <<>>
    /\ Get(result.quantum_generation, "binary", <<>>) # <<>>

\* the winner map has one entry for each of the six tests, valued by the
\* passed flags of the two analyses
SixWinners(entropy_comparison) ==
    /\ DOMAIN entropy_comparison.test_winners = TestKeys
    /\ \A k \in TestKeys :
          LET c_passed == entropy_comparison.full_classical_analysis.tests[k].passed
              q_passed == entropy_comparison.full_quantum_analysis.tests[k].passed
              winner == entropy_comparison.test_winners[k]
          IN  /\ winner = "tie" <=> (c_passed /\ q_passed)
              /\ winner = "classical" <=> (c_passed /\ ~q_passed)
              /\ winner = "quantum" <=> (q_passed /\ ~c_passed)
              /\ winner = "neither" <=> (~c_passed /\ ~q_passed)

\* the aggregator was run on each binary
AggregatorRanOnEach(entropy_comparison) ==
    /\ entropy_comparison.full_classical_analysis
          = analyze_randomness(EntropyAnalyzer, result.classical_generation.binary).result
    /\ entropy_comparison.full_quantum_analysis
          = analyze_randomness(EntropyAnalyzer, result.quantum_generation.binary).result

Reported == Compared /\ ~IsRaised(result)

\* the raw generation times the speed block reads from the two records, in
\* microseconds (0 for a record without generation_time_ms)
RawClassicalTime == Get(result.classical_generation, "generation_time_ms", 0)

RawQuantumTime == Get(result.quantum_generation, "generation_time_ms", 0)

\* C12: for every pair of generation times, with a = max(classical_time, 0.1)
\* and b = max(external_time, 0.1), the reported speed ratio equals
\* round(max(a,b)/min(a,b), 2) and is therefore >= 1 whichever source is
\* faster (ratios are kept in hundredths)
C12_RatioMaxOverMin ==
    Reported =>
        LET a == Max2(RawClassicalTime, 100)
            b == Max2(RawQuantumTime, 100)
        IN  /\ result.speed_comparison.speed_ratio
                  = RoundHalfEven(100 * Max2(a, b), Min2(a, b))
            /\ result.speed_comparison.speed_ratio >= 100

\* C13: for every pair of generation records, faster is 'classical' iff the
\* raw classical time is strictly smaller than the raw external time,
\* 'quantum' iff it is strictly larger, and 'tie' iff the raw (unclamped)
\* times are equal; classical 1.0 ms and external 5.0 ms give faster =
\* 'classical' with ratio 5.0
C13_FasterByRawTimes ==
    Reported =>
        LET faster == result.speed_comparison.faster
        IN  /\ faster \in {"classical", "quantum", "tie"}
            /\ faster = "classical" <=> RawClassicalTime < RawQuantumTime
            /\ faster = "quantum" <=> RawClassicalTime > RawQuantumTime
            /\ faster = "tie" <=> RawClassicalTime = RawQuantumTime
            /\ (RawClassicalTime = 1000 /\ RawQuantumTime = 5000)
                  => (faster = "classical" /\ result.speed_comparison.speed_ratio = 500)

\* the classical generation took 1.0 ms and the external one 5.0 ms
C13_Witness ==
    /\ Reported
    /\ "generation_time_ms" \in DOMAIN result.classical_generation
    /\ "generation_time_ms" \in DOMAIN result.quantum_generation
    /\ RawClassicalTime = 1000
    /\ RawQuantumTime = 5000
    /\ result.speed_comparison.faster = "classical"
    /\ result.speed_comparison.speed_ratio = 500

\* both raw times lie under the 0.1 ms clamp and differ
C13_WitnessUnderClamp ==
    /\ Reported
    /\ "generation_time_ms" \in DOMAIN result.quantum_generation
    /\ RawClassicalTime < 100
    /\ RawQuantumTime < RawClassicalTime
    /\ result.speed_comparison.faster = "quantum"

\* both raw times are equal
C13_WitnessTie ==
    /\ Reported
    /\ "generation_time_ms" \in DOMAIN result.quantum_generation
    /\ RawClassicalTime = RawQuantumTime
    /\ result.speed_comparison.faster = "tie"

\* the records and raises the sources handed to full_comparison
SourceOutcomes == {source_calls[i].outcome : i \in DOMAIN source_calls}

\* C14: every GenerationRecord produced by any source (classical, simulator,
\* IBM hardware, simulator-mode fallback) has generation_time_ms >= 0.001,
\* and no source divides by a zero time
C14_TimeFloored ==
    \A outcome \in SourceOutcomes :
        IF IsRaised(outcome)
        THEN outcome.raised # "ZeroDivisionError"
        ELSE "generation_time_ms" \in DOMAIN outcome
                => outcome.generation_time_ms >= 1

\* the positions of source_calls at which one of the given sources was called
CallsTo(sources) == {i \in DOMAIN source_calls : source_calls[i].source \in sources}

\* the call ended in a failure: it raised, or returned an error or an
\* unsuccessful result
FailedCall(i) ==
    LET outcome == source_calls[i].outcome
    IN  \/ IsRaised(outcome)
        \/ "error" \in DOMAIN outcome
        \/ ~Get(outcome, "success", TRUE)

\* C15: within one compare invocation the classical source is called exactly
\* once and the external source of the requested mode at most once (not at
\* all when the comparator was built without it); after a failed external
\* call the comparator calls no external source again, and the only further
\* call is the fallback, once, in simulator mode
C15_NoRetry ==
    Compared =>
        /\ Cardinality(CallsTo({"classical"})) = 1
        /\ source_calls[1].source = "classical"
        /\ Cardinality(CallsTo({"simulator", "ibm_hardware"})) <= 1
        /\ CallsTo({"ibm_hardware"}) # {} => RequestedMode = "ibm_hardware"
        /\ CallsTo({"simulator"}) # {} => RequestedMode # "ibm_hardware"
        /\ Cardinality(CallsTo({"fallback"})) <= 1
        /\ CallsTo({"fallback"}) # {} =>
              /\ RequestedMode = "simulator"
              /\ source_calls[Len(source_calls)].source = "fallback"
        /\ \A i \in CallsTo({"simulator", "ibm_hardware"}) :
              FailedCall(i) =>
                 \A j \in DOMAIN source_calls :
                    j > i => source_calls[j].source = "fallback"

\* the IBM source was called once, failed, and nothing was called after it
C15_Witness ==
    /\ Compared
    /\ RequestedMode = "ibm_hardware"
    /\ Len(source_calls) = 2
    /\ source_calls[2].source = "ibm_hardware"
    /\ FailedCall(2)
    /\ ~IsRaised(result)
    /\ "error" \in DOMAIN result.quantum_generation

(***************************************************************************)
(* SpecPair: several direct calls of full_comparison, one after the other, *)
(* on one comparator.  comparisons keeps, for each call that returned a    *)
(* report, the parameters of the call, the two records it obtained and the *)
(* blocks it computed from them.                                           *)
(***************************************************************************)
\* the calls ask for 32 bits, after which the modelled generator is back in
\* the state it started from
PairLengths == {32}

PairRequests ==
    [length : {<<l>> : l \in PairLengths},
     mode : {<<"simulator">>, <<"ibm_hardware">>, <<"hardware">>, <<"aer">>},
     shots : {<<>>, <<50>>}]

\* the surroundings of the calls: one reading of each clock
PairEnvironments(length, mode) ==
    {env \in Environments(length, mode) :
        /\ env.classical_elapsed = 26
        /\ env.quantum_elapsed = 3
        /\ env.fallback_elapsed = 31}

\* what full_comparison computes after the two generations: the winner map,
\* the speed block, the summary table and the security narrative
Blocks(results) ==
    [test_winners |-> IF "entropy_comparison" \in DOMAIN results
                      THEN <<results.entropy_comparison.test_winners>>
                      ELSE <<>>,
     speed_comparison |-> results.speed_comparison,
     summary |-> results.summary,
     security_comparison |-> results.security_comparison]

\* the entry a returned report leaves in comparisons
Comparison(results) ==
    [mode |-> results.comparison_parameters.mode,
     shots |-> results.comparison_parameters.shots,
     timestamp |-> results.comparison_parameters.timestamp,
     classical_generation |-> results.classical_generation,
     quantum_generation |-> results.quantum_generation,
     blocks |-> Blocks(results)]

InitPair == \E c \in Comparators({0}) : Idle(c)

\* one more call comparator.full_comparison(length, mode, shots); the
\* timestamp of each call is later than that of the call before
CompareAgain(args, env) ==
    /\ Len(comparisons) < MaxCompare
    /\ \E call \in {full_comparison(comparator, Arg(args, "length", 256),
                                     Arg(args, "mode", "simulator"),
                                     Arg(args, "shots", 1024),
                                     [env EXCEPT !.timestamp = Len(comparisons) + 1])} :
           /\ comparator' = call.self
           /\ result' = call.result
           /\ source_calls' = call.invoked
           /\ comparisons' = IF IsRaised(call.result) THEN comparisons
                             ELSE Append(comparisons, Comparison(call.result))
    /\ request' = [via |-> "direct", args |-> args]
    /\ response' = <<>>
    /\ pc' = "compared"
    /\ UNCHANGED <<analyzer, bit_string, report, ran, calls, returns, last_lag,
                   produced, threads, IBM_AVAILABLE, frame,
                   crypto_calls>>

NextPair ==
    \E args \in PairRequests :
        \E env \in PairEnvironments(args.length[1], args.mode[1]) :
            CompareAgain(args, env)

SpecPair == InitPair /\ [][NextPair]_vars

\* the two calls obtained identical classical and external records
SameRecords(i, j) ==
    /\ comparisons[i].classical_generation = comparisons[j].classical_generation
    /\ comparisons[i].quantum_generation = comparisons[j].quantum_generation

\* C16: two compare invocations that obtain identical classical and external
\* records produce identical winner map, speed block, summary table and
\* security narrative, whatever the mode, shots or time of the invocations
C16_BlocksFromRecords ==
    \A i, j \in DOMAIN comparisons :
        SameRecords(i, j) => comparisons[i].blocks = comparisons[j].blocks

\* two calls with different mode, shots and timestamp obtained identical
\* records
C16_Witness ==
    \E i, j \in DOMAIN comparisons :
        /\ SameRecords(i, j)
        /\ comparisons[i].mode # comparisons[j].mode
        /\ comparisons[i].shots # comparisons[j].shots
        /\ comparisons[i].timestamp # comparisons[j].timestamp
        /\ comparisons[i].blocks = comparisons[j].blocks

\* two calls with different shots obtained identical records that both
\* carry a binary, so the winner map is part of the blocks
C16_WitnessWinners ==
    \E i, j \in DOMAIN comparisons :
        /\ SameRecords(i, j)
        /\ comparisons[i].shots # comparisons[j].shots
        /\ comparisons[i].timestamp # comparisons[j].timestamp
        /\ comparisons[i].blocks.test_winners # <<>>
        /\ comparisons[i].blocks = comparisons[j].blocks

(***************************************************************************)
(* SpecTests: one direct call of one of the six tests, or one analyze     *)
(* call, on a string over {0,1} of any length up to MaxLen.                *)
(***************************************************************************)
\* the strings handed to the tests: two periodic stretches, the empty
\* string and every string of at most three characters among them
TestInputs ==
    {s \in {Cycle(p, a) \o Cycle(q, b) :
                p \in Patterns, q \in Patterns,
                a \in 0..MaxLen, b \in 0..MaxLen} : Len(s) <= MaxLen}

\* the lags autocorrelation_test is called with
Lags == {0, 1, 2, 12}

InitTests ==
    /\ pc = "ready"
    /\ analyzer = EntropyAnalyzer
    /\ bit_string \in TestInputs
    /\ report = <<>>
    /\ ran = <<>>
    /\ calls = <<>>
    /\ returns = <<>>
    /\ last_lag = DefaultLag
    /\ comparator = <<>>
    /\ request = <<>>
    /\ result = <<>>
    /\ response = <<>>
    /\ source_calls = <<>>
    /\ produced = <<>>
    /\ threads = <<>>
    /\ comparisons = <<>>
    /\ IBM_AVAILABLE = TRUE
    /\ frame = <<>>
    /\ crypto_calls = <<>>

\* the call of one test returned (or raised) value
Tested(name, value) ==
    /\ pc = "ready"
    /\ report' = value
    /\ ran' = <<name>>
    /\ pc' = "tested"
    /\ UNCHANGED <<analyzer, bit_string, calls, returns>>
    /\ UNCHANGED comparatorVars

FrequencyTest ==
    Tested("frequency", frequency_test(bit_string)) /\ UNCHANGED last_lag

RunsTest ==
    Tested("runs", runs_test(bit_string)) /\ UNCHANGED last_lag

ShannonEntropyTest ==
    Tested("shannon_entropy", shannon_entropy_test(bit_string))
    /\ UNCHANGED last_lag

SerialTest ==
    Tested("serial", serial_test(bit_string)) /\ UNCHANGED last_lag

LongestRunTest ==
    Tested("longest_run", longest_run_test(bit_string)) /\ UNCHANGED last_lag

AutocorrelationTest(l) ==
    Tested("autocorrelation", autocorrelation_test(bit_string, l))
    /\ last_lag' = l

NextTests ==
    \/ FrequencyTest
    \/ RunsTest
    \/ ShannonEntropyTest
    \/ SerialTest
    \/ LongestRunTest
    \/ \E l \in Lags : AutocorrelationTest(l)
    \/ Analyze

SpecTests == InitTests /\ [][NextTests]_vars

(***************************************************************************)
(* Claims about the single tests (SpecTests).                              *)
(***************************************************************************)
\* the test of this name was called directly and has ended
DirectlyTested(name) == pc = "tested" /\ ran = <<name>>

Ones == Cardinality({i \in DOMAIN bit_string : bit_string[i] = "1"})

Zeros == Cardinality({i \in DOMAIN bit_string : bit_string[i] = "0"})

\* C17: for every sequence of length N >= 1 the Frequency test's chi_square
\* (kept in ten-thousandths, as reported to 4 decimals) equals
\* (ones-N/2)^2/(N/2) + (zeros-N/2)^2/(N/2) = (ones-zeros)^2/N, and passed
\* holds iff chi_square < 3.84; an all-identical sequence has chi_square = N,
\* the maximum, and the all-zero 20-bit string has chi_square = 20 and
\* passed = false
C17_FrequencyChiSquare ==
    (DirectlyTested("frequency") /\ Len(bit_string) >= 1) =>
        LET N == Len(bit_string)
            two_terms == (2 * Ones - N) * (2 * Ones - N)
                         + (2 * Zeros - N) * (2 * Zeros - N)
            difference == (Ones - Zeros) * (Ones - Zeros)
        IN  /\ ~IsRaised(report)
            /\ report.ones_count = Ones
            /\ report.zeros_count = Zeros
            /\ report.chi_square_e4 = RoundHalfEven(10000 * two_terms, 2 * N)
            /\ report.chi_square_e4 = RoundHalfEven(10000 * difference, N)
            /\ report.passed <=> 100 * difference < 384 * N
            /\ report.chi_square_e4 <= 10000 * N
            /\ AllIdentical(bit_string) => report.chi_square_e4 = 10000 * N
            /\ bit_string = Repeat("0", 20)
                  => (report.chi_square_e4 = 200000 /\ ~report.passed)

\* the Frequency test was called on the all-zero 20-bit string
C17_Witness ==
    /\ DirectlyTested("frequency")
    /\ bit_string = Repeat("0", 20)
    /\ report.chi_square_e4 = 200000
    /\ ~report.passed

\* the result is the DegenerateSequence failure of the Runs test
IsRunsDegenerate(r) ==
    /\ DOMAIN r = {"test_name", "passed", "error"}
    /\ r.error = "Bit string is all 0s or all 1s"
    /\ ~r.passed

\* C18: for every non-empty sequence of a single repeated symbol the Runs
\* test returns the DegenerateSequence failure (passed = false, a reason, no
\* computed statistic) without raising; for every sequence containing both
\* symbols it returns a computed result, without raising
C18_RunsDegenerate ==
    (DirectlyTested("runs") /\ Len(bit_string) >= 1) =>
        /\ ~IsRaised(report)
        /\ AllIdentical(bit_string) => IsRunsDegenerate(report)
        /\ ~AllIdentical(bit_string) =>
              /\ "error" \notin DOMAIN report
              /\ "total_runs" \in DOMAIN report
              /\ report.passed \in BOOLEAN

\* the Runs test was called on a single 1, where n - 1 = 0
C18_Witness ==
    /\ DirectlyTested("runs")
    /\ bit_string = <<"1">>
    /\ IsRunsDegenerate(report)

\* C19: the Autocorrelation test with lag l returns InsufficientLength
\* exactly when N < l + 10, whatever the symbols; otherwise it returns
\* DegenerateSequence exactly when all symbols are identical; in every other
\* case it returns a computed result, and it never raises
C19_AutocorrelationGuards ==
    DirectlyTested("autocorrelation") =>
        /\ ~IsRaised(report)
        /\ ~report.passed \/ "error" \notin DOMAIN report
        /\ IF Len(bit_string) < last_lag + 10
           THEN /\ "error" \in DOMAIN report
                /\ report.error = "Need at least " \o ToString(last_lag + 10)
                                   \o " bits for autocorrelation test"
           ELSE IF AllIdentical(bit_string)
           THEN /\ "error" \in DOMAIN report
                /\ report.error = "Zero variance in bit string"
           ELSE /\ "error" \notin DOMAIN report
                /\ report.lag = last_lag
                /\ report.passed \in BOOLEAN

\* an all-identical string shorter than lag + 10 is reported as too short
C19_Witness ==
    /\ DirectlyTested("autocorrelation")
    /\ last_lag = 2
    /\ bit_string = Repeat("1", 11)
    /\ report.error = "Need at least 12 bits for autocorrelation test"

\* an all-identical string of lag + 10 symbols has zero variance
C19_WitnessDegenerate ==
    /\ DirectlyTested("autocorrelation")
    /\ last_lag = 2
    /\ bit_string = Repeat("1", 12)
    /\ report.error = "Zero variance in bit string"

\* the result is the InsufficientLength failure of the Serial test
IsSerialTooShort(r) ==
    /\ DOMAIN r = {"test_name", "passed", "error"}
    /\ r.error = "Need at least 4 bits for serial test"
    /\ ~r.passed

\* C20: the Serial test returns the InsufficientLength failure (passed =
\* false, a reason, no pattern counts) for every input of length N < 4 and
\* a computed result for every N >= 4; in every report of analyze the
\* serial entry is a computed result
C20_SerialMinimum ==
    /\ DirectlyTested("serial") =>
          IF Len(bit_string) < 4
          THEN IsSerialTooShort(report)
          ELSE /\ ~IsRaised(report)
               /\ "error" \notin DOMAIN report
               /\ "pattern_counts" \in DOMAIN report
    /\ (pc = "done" /\ "serial" \in {ran[i] : i \in DOMAIN ran}) =>
          /\ Len(bit_string) >= MinBits
          /\ IsReport(report) =>
                /\ "error" \notin DOMAIN report.tests.serial
                /\ "pattern_counts" \in DOMAIN report.tests.serial

\* the Serial test was called on a 3-character input
C20_Witness ==
    /\ DirectlyTested("serial")
    /\ Len(bit_string) = 3
    /\ IsSerialTooShort(report)

\* analyze ran the Serial test on a 20-character input
C20_WitnessAnalyze ==
    /\ pc = "done"
    /\ Len(bit_string) = MinBits
    /\ IsReport(report)
    /\ "pattern_counts" \in DOMAIN report.tests.serial

\* C21: for every non-empty sequence with as many 1s as 0s, in particular
\* every alternating even-length string 0101...01, the Shannon Entropy test
\* reports entropy 1 and passed = true; for every sequence passed holds iff
\* the per-symbol entropy exceeds 0.9 (the rarer symbol makes up more than
\* 0.3160193 of the sequence), whatever the block entropy
C21_EntropyOfBalanced ==
    DirectlyTested("shannon_entropy") =>
        /\ ~IsRaised(report)
        /\ report.passed <=>
              10000000 * Min2(Ones, Zeros) > 3160193 * Len(bit_string)
        /\ (Len(bit_string) >= 1 /\ Ones = Zeros) =>
              /\ report.entropy = <<1, 2>>
              /\ report.passed
              /\ report.quality = "Excellent"

\* the test was called on 0101...01 of 20 symbols, in which only the two
\* patterns 01 and 10 occur
C21_Witness ==
    /\ DirectlyTested("shannon_entropy")
    /\ bit_string = Cycle(<<"0", "1">>, 20)
    /\ report.block_entropy = (10 :> 1) @@ (9 :> 1)
    /\ report.entropy = <<1, 2>>
    /\ report.passed

\* the value of a string of hex digits is the value of the bit string
\* (leading zeros set aside)
HexEncodes(hex, bits) ==
    /\ \A i \in DOMAIN hex : \E d \in DOMAIN HexDigits : hex[i] = HexDigits[d]
    /\ hex = NibblesToHex(ZFill(bits, 4 * Len(hex)))

\* C22: for every requested length L the classical record has a binary of
\* exactly L symbols over {0,1}; its hex is non-empty only when L is a
\* multiple of 4, and is then exactly L/4 uppercase hex digits encoding the
\* binary value; for every L that is not a multiple of 4 the hex is empty
C22_HexOnlyForMultiplesOfFour ==
    \A i \in DOMAIN produced :
        LET L == produced[i].length
        IN  /\ Len(produced[i].binary) = L
            /\ IsBinary(produced[i].binary)
            /\ IF L % 4 = 0
               THEN /\ Len(produced[i].hex) = L \div 4
                    /\ HexEncodes(produced[i].hex, produced[i].binary)
               ELSE produced[i].hex = <<>>

QualityTiers == {"Excellent", "Good", "Acceptable", "Poor"}

\* C23: every one of the six results in every report of analyze carries a
\* boolean passed and a quality tier in {Excellent, Good, Acceptable, Poor},
\* the results of degenerate or inapplicable tests included
C23_EveryResultHasQuality ==
    (pc = "done" /\ IsReport(report)) =>
        /\ DOMAIN report.tests = TestKeys
        /\ \A k \in TestKeys :
              /\ "passed" \in DOMAIN report.tests[k]
              /\ report.tests[k].passed \in BOOLEAN
              /\ "quality" \in DOMAIN report.tests[k]
              /\ report.tests[k].quality \in QualityTiers

\* the maximal blocks of s, each named by its first position
MaximalBlocks(s) ==
    {i \in DOMAIN s : i = 1 \/ s[i] # s[i - 1]}

\* a Runs test result that was computed (no error entry)
IsRunsResult(r) ==
    {"total_runs", "passed", "quality"} \subseteq DOMAIN r

IsMixed(s) == Count(s, "1") > 0 /\ Count(s, "0") > 0

\* N^2 * (N-1) * variance / 1 as the integer a*(a-N), a = 2k(N-k)
RunsVarianceNumerator(s) ==
    LET a == 2 * Ones * Zeros
    IN  a * (a - Len(s))

\* (runs - expected_runs)^2 < 1.96^2 * variance, the variance being
\* a*(a-N)/(N^2*(N-1)) when positive and 0.001 otherwise; with
\* x = |N*(runs-1) - a| the left side is x^2/N^2
RunsWithinBand(s, runs) ==
    LET n == Len(s)
        a == 2 * Count(s, "1") * Count(s, "0")
        x == Abs(n * (runs - 1) - a)
    IN  IF a * (a - n) > 0
        THEN ProdLess(625 * (n - 1) * x, x, 2401 * a, a - n)
        ELSE ProdLess(625 * 1000 * x, x, 2401 * n, n)

\* C24: for a sequence holding both symbols the Runs test reports the number
\* of maximal blocks (between 2 and N) as total_runs, passes exactly when
\* (runs - expected_runs)^2 < 1.96^2 * variance, and the variance is
\* positive (so never floored) whenever N >= 3
C24_RunsCountAndVerdict ==
    (DirectlyTested("runs") /\ IsMixed(bit_string)) =>
        /\ IsRunsResult(report)
        /\ report.total_runs = Cardinality(MaximalBlocks(bit_string))
        /\ report.total_runs \in 2..Len(bit_string)
        /\ report.passed = RunsWithinBand(bit_string, report.total_runs)
        /\ Len(bit_string) >= 3 => RunsVarianceNumerator(bit_string) > 0

\* a mixed sequence of 20 symbols in 10 blocks has been judged
C24_Witness ==
    /\ DirectlyTested("runs")
    /\ IsMixed(bit_string)
    /\ Len(bit_string) = 20
    /\ IsRunsResult(report)
    /\ report.total_runs = 10
    /\ report.passed

\* a mixed sequence has failed the Runs test
C24_WitnessFailed ==
    /\ DirectlyTested("runs")
    /\ IsMixed(bit_string)
    /\ Len(bit_string) >= 3
    /\ IsRunsResult(report)
    /\ ~report.passed

\* the two-symbol mixed sequence, the one case where the variance is floored
C24_WitnessFloor ==
    /\ DirectlyTested("runs")
    /\ IsMixed(bit_string)
    /\ Len(bit_string) = 2
    /\ RunsVarianceNumerator(bit_string) <= 0
    /\ IsRunsResult(report)
    /\ report.passed

\* the lengths of the contiguous stretches of s that hold only symbol c
BlockLengths(s, c) ==
    {p[2] - p[1] + 1 : p \in
        {q \in (DOMAIN s) \X (DOMAIN s) :
            q[1] <= q[2] /\ \A k \in q[1]..q[2] : s[k] = c}}

\* the length of the longest contiguous block of c in s, 0 without any
LongestBlock(s, c) ==
    IF BlockLengths(s, c) = {} THEN 0
    ELSE CHOOSE m \in BlockLengths(s, c) : \A x \in BlockLengths(s, c) : x <= m

\* the last position of s closes a longest block of c
EndsInLongestBlock(s, c) ==
    /\ LongestBlock(s, c) > 0
    /\ \A k \in (Len(s) - LongestBlock(s, c) + 1)..Len(s) : s[k] = c

\* m <= max(2.5*log2(n), 10): m <= 10, or 2m <= 5*log2(n), i.e. 4^m <= n^5
\* (n^5 < 4^12 for the lengths drawn, so a longer run is above the threshold)
WithinLongestRunThreshold(m, n) ==
    m <= 10 \/ (m <= 12 /\ Pow(4, m) <= Pow(n, 5))

IsLongestRunResult(r) ==
    {"longest_run_ones", "longest_run_zeros", "passed"} \subseteq DOMAIN r

C25_WitnessAbsent ==
    /\ DirectlyTested("longest_run")
    /\ bit_string # <<>>
    /\ Ones = 0
    /\ IsLongestRunResult(report)
    /\ report.longest_run_ones = 0
    /\ report.longest_run_zeros = Len(bit_string)

\* a run of 11 passes by the logarithmic branch of the threshold
C25_WitnessLogBranch ==
    /\ DirectlyTested("longest_run")
    /\ IsLongestRunResult(report)
    /\ Max2(report.longest_run_ones, report.longest_run_zeros) = 11
    /\ report.passed

\* a run above the threshold fails
C25_WitnessFailed ==
    /\ DirectlyTested("longest_run")
    /\ IsLongestRunResult(report)
    /\ ~report.passed

\* ---------------------------------------------------------------------
\* The frequency, entropy and serial tests on sequences of several hundred
\* symbols, the lengths the comparison and analysis routes hand over
\* ---------------------------------------------------------------------

LongLengths == {421, 1024}

LongSplits == {0, 174, 380}

\* two periodic stretches filling one of the long lengths
LongInputs ==
    {Cycle(p, a) \o Cycle(q, n - a) :
        p \in Patterns, q \in Patterns, a \in LongSplits, n \in LongLengths}

InitLong ==
    /\ pc = "ready"
    /\ analyzer = EntropyAnalyzer
    /\ bit_string \in LongInputs
    /\ report = <<>>
    /\ ran = <<>>
    /\ calls = <<>>
    /\ returns = <<>>
    /\ last_lag = DefaultLag
    /\ comparator = <<>>
    /\ request = <<>>
    /\ result = <<>>
    /\ response = <<>>
    /\ source_calls = <<>>
    /\ produced = <<>>
    /\ threads = <<>>
    /\ comparisons = <<>>
    /\ IBM_AVAILABLE = TRUE
    /\ frame = <<>>
    /\ crypto_calls = <<>>

NextLong ==
    \/ FrequencyTest
    \/ ShannonEntropyTest
    \/ SerialTest

SpecLong == InitLong /\ [][NextLong]_vars

\* C26: a test result that carries a quality tier and has passed = false has
\* the tier 'Poor', for every test and every sequence length
C26_FailedIsPoor ==
    (pc = "tested" /\ "quality" \in DOMAIN report /\ ~report.passed) =>
        report.quality = "Poor"

\* the winner of the summary's 'Generation Speed' row
SpeedRowWinner == result.summary.metrics[1].winner

\* C27: in every report of full_comparison, those with a failed external
\* source included, speed_comparison.faster and the winner of the summary's
\* 'Generation Speed' row never name different sources, and when the two raw
\* times are equal faster is 'tie' and the summary winner is 'quantum'
C27_SpeedVerdictsAgree ==
    Reported =>
        /\ result.summary.metrics[1].metric = "Generation Speed"
        /\ ~(result.speed_comparison.faster = "classical"
                /\ SpeedRowWinner = "quantum")
        /\ ~(result.speed_comparison.faster = "quantum"
                /\ SpeedRowWinner = "classical")
        /\ RawClassicalTime = RawQuantumTime =>
              /\ result.speed_comparison.faster = "tie"
              /\ SpeedRowWinner = "quantum"

\* ---------------------------------------------------------------------
\* The IBM connection manager driven through its connection operations
\* ---------------------------------------------------------------------

MaxOps == 3

\* IBMQuantumManager.connect(api_token, channel): env.save and env.service
\* are "ok" or "raise", the outcome of QiskitRuntimeService.save_account and
\* of the QiskitRuntimeService constructor; env.listed is what
\* get_available_backends returns
connect(self, api_token, channel, available, env) ==
    LET saved == IF Falsy(api_token) THEN self
                 ELSE [self EXCEPT !.api_token = api_token]
        failed(s) ==
            [self |-> [s EXCEPT !.connected = FALSE],
             result |-> [success |-> FALSE, error |-> env.text,
                         hint |-> "Get your API token from https://quantum.ibm.com/"]]
    IN  IF ~available
        THEN [self |-> self,
              result |-> [success |-> FALSE,
                          error |-> "IBM Quantum Runtime not installed. Run: pip install qiskit-ibm-runtime",
                          detail |-> "IBM_IMPORT_ERROR"]]
        ELSE IF ~Falsy(api_token) /\ env.save = "raise" THEN failed(self)
        ELSE IF env.service = "raise" THEN failed(saved)
        ELSE [self |-> [saved EXCEPT !.service = "service", !.connected = TRUE],
              result |-> [success |-> TRUE, connected |-> TRUE,
                          channel |-> channel, backends |-> env.listed]]

\* IBMQuantumManager.disconnect()
disconnect(self) ==
    [self |-> [self EXCEPT !.service = None, !.connected = FALSE,
                           !.current_backend = None],
     result |-> [success |-> TRUE, connected |-> FALSE,
                 message |-> "Disconnected from IBM Quantum"]]

\* IBMQuantumManager.select_backend(backend_name): env.backends is "raise"
\* when service.backend(backend_name) raises
select_backend(self, backend_name, env) ==
    IF ~self.connected \/ self.service = None
    THEN [self |-> self,
          result |-> [success |-> FALSE, error |-> "Not connected to IBM Quantum"]]
    ELSE IF env.backends = "raise"
    THEN [self |-> self, result |-> [success |-> FALSE, error |-> env.text]]
    ELSE [self |-> [self EXCEPT !.current_backend = backend_name],
          result |-> [success |-> TRUE, backend |-> backend_name,
                      message |-> "Selected backend"]]

\* IBMQuantumManager.try_auto_connect()
try_auto_connect(self, available, env) ==
    IF ~available
    THEN [self |-> self,
          result |-> [success |-> FALSE, error |-> "IBM Quantum Runtime not installed"]]
    ELSE IF env.service = "raise"
    THEN [self |-> self,
          result |-> [success |-> FALSE,
                      error |-> "No saved credentials found. Please provide API token.",
                      detail |-> env.text]]
    ELSE [self |-> [self EXCEPT !.service = "service", !.connected = TRUE],
          result |-> [success |-> TRUE, connected |-> TRUE,
                      message |-> "Connected using saved credentials",
                      backends |-> env.listed]]

\* the global manager, held by the service's comparator
Manager == comparator.ibm_manager[1]

BackendNames == {"ibm_a", "ibm_b"}

ApiTokens == {None, "", "token"}

\* what the IBM runtime does during one manager operation
ManagerEnvironments ==
    [save : {"ok", "raise"}, service : {"ok", "raise"},
     backends : {"raise", "empty"} \cup BackendNames,
     text : {"job failed"}, listed : {<<>>, <<"ibm_a", "ibm_b">>}]

\* the service after start-up: app.py builds the comparator around the
\* module's manager; the runtime package was imported or not
InitManager ==
    /\ pc = "idle"
    /\ analyzer = EntropyAnalyzer
    /\ bit_string = <<>>
    /\ report = <<>>
    /\ ran = <<>>
    /\ calls = <<>>
    /\ returns = <<>>
    /\ last_lag = DefaultLag
    /\ comparator = RandomnessComparator("QuantumRandomGenerator",
                                         <<IBMQuantumManager>>, RngFromEntropy(0))
    /\ request = <<>>
    /\ result = <<>>
    /\ response = <<>>
    /\ source_calls = <<>>
    /\ produced = <<>>
    /\ threads = <<>>
    /\ comparisons = <<>>
    /\ IBM_AVAILABLE \in BOOLEAN
    /\ frame = <<>>
    /\ crypto_calls = <<>>

\* one operation on the manager: call is what it returns and leaves behind
Operated(name, call) ==
    /\ pc = "idle"
    /\ Len(source_calls) < MaxOps
    /\ comparator' = [comparator EXCEPT !.ibm_manager = <<call.self>>]
    /\ result' = call.result
    /\ request' = [via |-> "ibm_manager", args |-> name]
    /\ source_calls' = Append(source_calls, name)
    /\ UNCHANGED <<pc, analyzer, bit_string, report, ran, calls, returns,
                   last_lag, response, produced, threads, comparisons,
                   IBM_AVAILABLE, frame, crypto_calls>>

Connect(api_token, env) ==
    Operated("connect",
             connect(Manager, api_token, "ibm_quantum_platform", IBM_AVAILABLE, env))

TryAutoConnect(env) ==
    Operated("try_auto_connect", try_auto_connect(Manager, IBM_AVAILABLE, env))

SelectBackend(backend_name, env) ==
    Operated("select_backend", select_backend(Manager, backend_name, env))

GetLeastBusyBackend(env) ==
    Operated("get_least_busy_backend", get_least_busy_backend(Manager, 5, env))

Disconnect ==
    Operated("disconnect", disconnect(Manager))

NextManager ==
    \/ \E api_token \in ApiTokens, env \in ManagerEnvironments :
           Connect(api_token, env)
    \/ \E env \in ManagerEnvironments : TryAutoConnect(env)
    \/ \E backend_name \in BackendNames, env \in ManagerEnvironments :
           SelectBackend(backend_name, env)
    \/ \E env \in ManagerEnvironments : GetLeastBusyBackend(env)
    \/ Disconnect

SpecManager == InitManager /\ [][NextManager]_vars

\* C28: in every state the manager reaches through connect, try_auto_connect,
\* select_backend, get_least_busy_backend and disconnect, current_backend is
\* set only while connected is true and service is set
C28_BackendImpliesConnection ==
    (comparator # <<>> /\ comparator.ibm_manager # <<>>) =>
        (Manager.current_backend # None =>
            Manager.connected /\ Manager.service # None)

\* ---------------------------------------------------------------------
\* IBMQuantumManager.generate_secure_key, one chunk-loop iteration at a time
\* ---------------------------------------------------------------------

\* str.replace(" ", "")
StripSpaces(s) == SelectSeq(s, LAMBDA ch : ch # " ")

RECURSIVE BinaryDigits(_)
BinaryDigits(n) ==
    IF n < 2 THEN <<ToString(n)>>
    ELSE BinaryDigits(n \div 2) \o <<ToString(n % 2)>>

\* format(key, "0{width}b")
FormatBinary(key, width) ==
    IF key < 0 THEN <<"-">> \o ZFill(BinaryDigits(-key), width - 1)
    ELSE ZFill(BinaryDigits(key), width)

\* the pool entries one item of counts contributes: a key is [str |-> s] or
\* [int |-> k], a value is <<v>> or <<>> when int(value) raises
PoolEntries(key, value, expected_bits) ==
    LET bitstring == IF "str" \in DOMAIN key THEN StripSpaces(key.str)
                     ELSE FormatBinary(key.int, expected_bits)
        sized == IF Len(bitstring) < expected_bits
                 THEN ZFill(bitstring, expected_bits)
                 ELSE SubSeq(bitstring, Len(bitstring) - expected_bits + 1,
                             Len(bitstring))
    IN  IF value = <<>> THEN <<>>
        ELSE IF value[1] <= 0 THEN <<>>
        ELSE IF bitstring = <<>> \/ \E i \in DOMAIN bitstring :
                                        bitstring[i] \notin {"0", "1"}
        THEN <<>>
        ELSE Repeat(sized, value[1])

\* IBMQuantumManager._expand_bitstrings_from_counts(counts, expected_bits),
\* counts being the items of the dict in order
RECURSIVE _expand_bitstrings_from_counts(_, _)
_expand_bitstrings_from_counts(counts, expected_bits) ==
    IF counts = <<>> THEN <<>>
    ELSE PoolEntries(counts[1].key, counts[1].value, expected_bits)
         \o _expand_bitstrings_from_counts(Tail(counts), expected_bits)

\* list.pop(idx) leaves the list without position idx + 1
Popped(pool, idx) ==
    SubSeq(pool, 1, idx) \o SubSeq(pool, idx + 2, Len(pool))

\* the draws of generate_secure_key that keep each drawn string in the pool
RECURSIVE Draws_kept(_, _)
Draws_kept(pool, take) ==
    IF take = 0 THEN {[taken |-> <<>>, pool |-> pool]}
    ELSE UNION {{[taken |-> <<pool[idx + 1]>> \o d.taken, pool |-> d.pool] :
                    d \in Draws_kept(pool, take - 1)} :
                idx \in 0..(Len(pool) - 1)}

\* take times: idx = secrets.randbelow(len(pool)); all_bits.append(pool.pop(idx)).
\* Every outcome: the strings taken, in order, and the pool left
RECURSIVE Draws(_, _)
Draws(pool, take) ==
    IF take = 0 THEN {[taken |-> <<>>, pool |-> pool]}
    ELSE UNION {{[taken |-> <<pool[idx + 1]>> \o d.taken, pool |-> d.pool] :
                    d \in Draws(Popped(pool, idx), take - 1)} :
                idx \in 0..(Len(pool) - 1)}

\* "".join(all_bits)
RECURSIVE Joined(_)
Joined(all_bits) ==
    IF all_bits = <<>> THEN <<>> ELSE all_bits[1] \o Joined(Tail(all_bits))

KeyLengths == {0, 1, 8, 9, 20}

KeyShots == {100, 5000}

\* the counts a job can come back with
KeyCounts ==
    {<<>>,
     <<[key |-> [str |-> <<"0","0","0","0","1","1","1","1">>], value |-> <<1>>]>>,
     <<[key |-> [str |-> <<"0","0","0","0","1","1","1","1">>], value |-> <<2>>],
       [key |-> [str |-> <<"1","0","1","0","1","0","1","0">>], value |-> <<1>>]>>,
     <<[key |-> [str |-> <<"1","1","1","1"," ","0","0","0","0">>], value |-> <<1>>],
       [key |-> [str |-> <<"1","0","1">>], value |-> <<1>>],
       [key |-> [str |-> <<"1","1","0","0","0","0","1","1","1">>], value |-> <<1>>]>>,
     <<[key |-> [str |-> <<"0","0","0","0","x","1","1","1">>], value |-> <<3>>],
       [key |-> [str |-> <<" ">>], value |-> <<1>>]>>,
     <<[key |-> [str |-> <<"0","0","0","0","1","1","1","1">>], value |-> <<0>>],
       [key |-> [str |-> <<"1","1","1","1","1","1","1","1">>], value |-> <<>>]>>,
     <<[key |-> [int |-> 5], value |-> <<2>>],
       [key |-> [int |-> -3], value |-> <<1>>],
       [key |-> [int |-> 300], value |-> <<1>>]>>}

KeyEnvironments ==
    [run : {"no_sampler", "raise", "no_counts", "ok"},
     text : {"job failed"},
     backends : {"raise", "empty", "ibm_a"},
     counts : KeyCounts,
     job_id : {None, "job"}]

InitKey ==
    /\ pc = "idle"
    /\ analyzer = EntropyAnalyzer
    /\ bit_string = <<>>
    /\ report = <<>>
    /\ ran = <<>>
    /\ calls = <<>>
    /\ returns = <<>>
    /\ last_lag = DefaultLag
    /\ \E m \in IBMManagerStates :
           comparator = RandomnessComparator("QuantumRandomGenerator", <<m>>,
                                             RngFromEntropy(0))
    /\ request = <<>>
    /\ result = <<>>
    /\ response = <<>>
    /\ source_calls = <<>>
    /\ produced = <<>>
    /\ threads = <<>>
    /\ comparisons = <<>>
    /\ IBM_AVAILABLE = TRUE
    /\ frame = <<>>
    /\ crypto_calls = <<>>

keyUntouched ==
    <<analyzer, bit_string, report, ran, calls, returns, last_lag, response,
      source_calls, produced, threads, comparisons, IBM_AVAILABLE, crypto_calls>>

\* the call up to the first test of the loop condition
KeyCall(key_length, shots, env) ==
    /\ pc = "idle"
    /\ request' = [via |-> "ibm_manager",
                   args |-> [key_length |-> key_length, shots |-> shots]]
    /\ \E selected \in {get_least_busy_backend(Manager, 5, env)} :
          IF ~Manager.connected \/ Manager.service = None
          THEN /\ result' = [success |-> FALSE,
                             error |-> "Not connected to IBM Quantum. Please connect first."]
               /\ pc' = "returned"
               /\ UNCHANGED <<comparator, frame>>
          ELSE IF Manager.current_backend = None /\ ~selected.result.success
          THEN /\ result' = selected.result
               /\ pc' = "returned"
               /\ comparator' = [comparator EXCEPT !.ibm_manager = <<selected.self>>]
               /\ UNCHANGED frame
          ELSE /\ comparator' =
                     IF Manager.current_backend = None
                     THEN [comparator EXCEPT !.ibm_manager = <<selected.self>>]
                     ELSE comparator
               /\ frame' = [key_length |-> key_length,
                            chunks |-> (key_length + 7) \div 8,
                            shots |-> ClampShots(shots),
                            all_bits |-> <<>>,
                            job_ids |-> <<>>,
                            remaining |-> (key_length + 7) \div 8,
                            jobs |-> 0,
                            measured |-> <<>>,
                            taken |-> <<>>,
                            pool |-> <<>>]
               /\ pc' = "loop"
               /\ UNCHANGED result
    /\ UNCHANGED keyUntouched

\* one iteration of "while remaining > 0"
KeyIterate(env) ==
    /\ pc = "loop"
    /\ frame.remaining > 0
    /\ \E run \in {RunOnIbm(Manager, frame.shots, env)} :
       \E measured \in {IF run.success /\ run.has_counts
                        THEN _expand_bitstrings_from_counts(env.counts, 8)
                        ELSE <<>>} :
          IF ~run.success
          THEN /\ result' = [f \in DOMAIN run \cup {"chunk_failed", "chunks_total"} |->
                               IF f = "chunk_failed"
                               THEN frame.chunks - frame.remaining + 1
                               ELSE IF f = "chunks_total" THEN frame.chunks
                               ELSE run[f]]
               /\ frame' = [frame EXCEPT !.jobs = @ + 1]
               /\ pc' = "returned"
          ELSE IF measured = <<>>
          THEN /\ result' = [success |-> FALSE,
                             error |-> "Failed to extract measured bitstring from IBM Sampler result.",
                             chunk_failed |-> frame.chunks - frame.remaining + 1,
                             chunks_total |-> frame.chunks]
               /\ frame' = [frame EXCEPT !.jobs = @ + 1]
               /\ pc' = "returned"
          ELSE \E draw \in Draws(measured, Min2(frame.remaining, Len(measured))) :
               /\ frame' = [frame EXCEPT
                               !.jobs = @ + 1,
                               !.job_ids = IF Falsy(env.job_id) THEN @
                                           ELSE Append(@, env.job_id),
                               !.all_bits = @ \o draw.taken,
                               !.remaining = @ - Len(draw.taken),
                               !.measured = measured,
                               !.taken = draw.taken,
                               !.pool = draw.pool]
               /\ UNCHANGED <<pc, result>>
    /\ UNCHANGED <<comparator, request>>
    /\ UNCHANGED keyUntouched

\* the loop condition fails: the key is assembled and returned
KeyReturn ==
    /\ pc = "loop"
    /\ frame.remaining <= 0
    /\ \E full_binary \in {SubSeq(Joined(frame.all_bits), 1,
                                  Min2(frame.key_length,
                                       Len(Joined(frame.all_bits))))} :
          result' = IF full_binary = <<>> THEN Raise("ValueError")
                    ELSE [success |-> TRUE,
                          binary |-> full_binary,
                          hex |-> ZFill(HexOfInt(full_binary), frame.key_length \div 4),
                          length |-> frame.key_length,
                          chunks_generated |-> frame.chunks,
                          shots_per_chunk |-> frame.shots,
                          backend_type |-> "ibm_quantum",
                          backend |-> Manager.current_backend,
                          job_ids |-> frame.job_ids]
    /\ pc' = "returned"
    /\ UNCHANGED <<comparator, request, frame>>
    /\ UNCHANGED keyUntouched

NextKey ==
    \/ \E key_length \in KeyLengths, shots \in KeyShots, env \in KeyEnvironments :
           KeyCall(key_length, shots, env)
    \/ \E env \in KeyEnvironments : KeyIterate(env)
    \/ KeyReturn

SpecKey == InitKey /\ [][NextKey]_vars

\* the call keeps running until it returns
SpecKeyLive == SpecKey /\ WF_vars(NextKey)

Occurrences(seq, x) == Cardinality({i \in DOMAIN seq : seq[i] = x})

IsBinaryString(s) == \A i \in DOMAIN s : s[i] \in {"0", "1"}

\* ceil(n/8) for n >= 1
CeilEighth(n) == CHOOSE c \in 1..n : 8 * c >= n /\ 8 * (c - 1) < n

\* generate_secure_key has entered its loop for a key of at least one bit
InKeyLoop == frame # <<>> /\ frame.key_length >= 1

KeyFailedInLoop(r) ==
    /\ ~IsRaised(r)
    /\ ~r.success
    /\ "chunk_failed" \in DOMAIN r
    /\ r.chunk_failed \in 1..CeilEighth(frame.key_length)

KeyLoopSafe ==
    InKeyLoop =>
        /\ frame.jobs <= CeilEighth(frame.key_length)
        /\ frame.remaining \in 0..CeilEighth(frame.key_length)
        /\ \A i \in DOMAIN frame.all_bits :
              Len(frame.all_bits[i]) = 8 /\ IsBinaryString(frame.all_bits[i])
        /\ \A i \in DOMAIN frame.measured :
              Occurrences(frame.measured, frame.measured[i]) =
                  Occurrences(frame.taken, frame.measured[i])
                  + Occurrences(frame.pool, frame.measured[i])
        /\ Len(frame.measured) = Len(frame.taken) + Len(frame.pool)
        /\ pc = "returned" =>
              \/ KeyFailedInLoop(result)
              \/ /\ ~IsRaised(result)
                 /\ result.success
                 /\ Len(result.binary) = frame.key_length
                 /\ IsBinaryString(result.binary)
                 /\ result.binary =
                       SubSeq(Joined(frame.all_bits), 1, frame.key_length)

KeyIterationProgresses ==
    (InKeyLoop /\ pc = "loop" /\ frame.remaining > 0) =>
        \/ pc' = "returned" /\ KeyFailedInLoop(result')
        \/ pc' = "loop" /\ frame'.remaining < frame.remaining

\* C29: for key_length >= 1 generate_secure_key terminates; every loop
\* iteration either returns a failure reporting chunk_failed in 1..chunks or
\* lowers the remaining chunk count, at most ceil(key_length/8) jobs are
\* submitted, and on success the binary is exactly key_length symbols over
\* {0,1}, built from 8-bit measured strings each removed from the job's pool
\* when drawn
C29_KeyGenerationTerminates ==
    /\ []KeyLoopSafe
    /\ [][KeyIterationProgresses]_vars
    /\ <>(pc = "returned")

\* a 20-bit key has been returned after two jobs, the second leaving a
\* measured string in its pool
C29_Witness ==
    /\ pc = "returned"
    /\ InKeyLoop
    /\ frame.key_length = 20
    /\ ~IsRaised(result)
    /\ result.success
    /\ frame.jobs = 2
    /\ Len(frame.pool) >= 1

\* the second job of a call failed
C29_WitnessFailed ==
    /\ pc = "returned"
    /\ InKeyLoop
    /\ KeyFailedInLoop(result)
    /\ result.chunk_failed = 2
    /\ frame.jobs = 2

\* ---------------------------------------------------------------------
\* CryptoEngine: PKCS7 padding.  bytes are sequences of integers 0..255; a
\* call returns [value |-> bytes] or raises
\* ---------------------------------------------------------------------

MaxPadCalls == 2

\* _pad_message adding no block to a message that already fills its blocks
_pad_message_short(message) ==
    LET padding_length == (16 - (Len(message) % 16)) % 16
    IN  message \o Repeat(padding_length, padding_length)

\* CryptoEngine._pad_message(message)
_pad_message(message) ==
    LET block_size == 16
        padding_length == block_size - (Len(message) % block_size)
    IN  message \o Repeat(padding_length, padding_length)

\* the first i in range(padding_length) at which the verification loop of
\* _unpad_message stops: it reads padded_message[-(i+1)]
RECURSIVE UnpadVerify(_, _, _)
UnpadVerify(padded_message, padding_length, i) ==
    IF i >= padding_length THEN "ok"
    ELSE IF i + 1 > Len(padded_message) THEN "IndexError"
    ELSE IF padded_message[Len(padded_message) - i] # padding_length
    THEN "ValueError"
    ELSE UnpadVerify(padded_message, padding_length, i + 1)

\* CryptoEngine._unpad_message(padded_message)
_unpad_message(padded_message) ==
    IF padded_message = <<>> THEN Raise("IndexError")
    ELSE LET padding_length == padded_message[Len(padded_message)]
             verified == UnpadVerify(padded_message, padding_length, 0)
         IN  IF padding_length > 16 \/ padding_length = 0
             THEN Raise("ValueError")
             ELSE IF verified # "ok" THEN Raise(verified)
             ELSE [value |-> SubSeq(padded_message, 1,
                                    Len(padded_message) - padding_length)]

BytePatterns ==
    {<<0>>, <<1>>, <<16>>, <<17>>, <<255>>, <<65, 1>>, <<2, 2, 7>>}

ByteLengths == {0, 1, 2, 15, 16, 17, 32}

\* the byte strings handed to the padding functions
ByteStrings == {Cycle(p, n) : p \in BytePatterns, n \in ByteLengths}

InitCrypto ==
    /\ pc = "idle"
    /\ analyzer = EntropyAnalyzer
    /\ bit_string = <<>>
    /\ report = <<>>
    /\ ran = <<>>
    /\ calls = <<>>
    /\ returns = <<>>
    /\ last_lag = DefaultLag
    /\ comparator = <<>>
    /\ request = <<>>
    /\ result = <<>>
    /\ response = <<>>
    /\ source_calls = <<>>
    /\ produced = <<>>
    /\ threads = <<>>
    /\ comparisons = <<>>
    /\ IBM_AVAILABLE = TRUE
    /\ frame = <<>>
    /\ crypto_calls = <<>>

PaddingCalled(op, argument, returned) ==
    /\ Len(crypto_calls) < MaxPadCalls
    /\ crypto_calls' = Append(crypto_calls,
                              [op |-> op, argument |-> argument,
                               returned |-> returned])
    /\ UNCHANGED analyzerVars
    /\ UNCHANGED <<comparator, request, result, response, source_calls,
                   produced, threads, comparisons, IBM_AVAILABLE, frame>>

PadMessage(message) ==
    PaddingCalled("_pad_message", message, [value |-> _pad_message(message)])

\* _unpad_message on what the last _pad_message returned (decrypt after
\* encrypt)
UnpadPadded ==
    /\ crypto_calls # <<>>
    /\ crypto_calls[Len(crypto_calls)].op = "_pad_message"
    /\ PaddingCalled("_unpad_message",
                     crypto_calls[Len(crypto_calls)].returned.value,
                     _unpad_message(crypto_calls[Len(crypto_calls)].returned.value))

\* _unpad_message on whatever a decryption produced
UnpadMessage(padded_message) ==
    PaddingCalled("_unpad_message", padded_message,
                  _unpad_message(padded_message))

NextCrypto ==
    \/ \E message \in ByteStrings : PadMessage(message)
    \/ UnpadPadded
    \/ \E padded_message \in ByteStrings : UnpadMessage(padded_message)

SpecCrypto == InitCrypto /\ [][NextCrypto]_vars

LastByte(b) == b[Len(b)]

IsPadCall(c) == c.op = "_pad_message"

IsUnpadCall(c) == c.op = "_unpad_message"

\* C30: _pad_message(m) has a length that is a multiple of 16 and above
\* len(m), ends in p bytes equal to p with p in 1..16 and starts with m;
\* _unpad_message of it returns m; and _unpad_message raises instead of
\* returning data when the last byte is 0 or above 16
C30_PaddingRoundTrip ==
    \A i \in DOMAIN crypto_calls :
        /\ IsPadCall(crypto_calls[i]) =>
              LET m == crypto_calls[i].argument
                  padded == crypto_calls[i].returned.value
                  p == LastByte(padded)
              IN  /\ Len(padded) % 16 = 0
                  /\ Len(padded) > Len(m)
                  /\ p \in 1..16
                  /\ Len(padded) = Len(m) + p
                  /\ \A k \in (Len(padded) - p + 1)..Len(padded) : padded[k] = p
                  /\ SubSeq(padded, 1, Len(m)) = m
        /\ (/\ IsUnpadCall(crypto_calls[i])
            /\ i > 1
            /\ IsPadCall(crypto_calls[i - 1])
            /\ crypto_calls[i].argument = crypto_calls[i - 1].returned.value) =>
              crypto_calls[i].returned = [value |-> crypto_calls[i - 1].argument]
        /\ (/\ IsUnpadCall(crypto_calls[i])
            /\ crypto_calls[i].argument # <<>>
            /\ LastByte(crypto_calls[i].argument) \notin 1..16) =>
              crypto_calls[i].returned = Raise("ValueError")

\* a message of exactly one block has been padded to two blocks and unpadded
\* back
C30_Witness ==
    /\ Len(crypto_calls) = 2
    /\ IsPadCall(crypto_calls[1])
    /\ Len(crypto_calls[1].argument) = 16
    /\ Len(crypto_calls[1].returned.value) = 32
    /\ IsUnpadCall(crypto_calls[2])
    /\ crypto_calls[2].argument = crypto_calls[1].returned.value
    /\ crypto_calls[2].returned = [value |-> crypto_calls[1].argument]

\* the empty message has been padded to one block of 16s and unpadded back
C30_WitnessEmpty ==
    /\ Len(crypto_calls) = 2
    /\ IsPadCall(crypto_calls[1])
    /\ crypto_calls[1].argument = <<>>
    /\ crypto_calls[2] = [op |-> "_unpad_message",
                          argument |-> Repeat(16, 16),
                          returned |-> [value |-> <<>>]]

\* data ending in 0 and data ending in 17 have both been rejected
C30_WitnessRejected ==
    /\ Len(crypto_calls) = 2
    /\ IsUnpadCall(crypto_calls[1])
    /\ IsUnpadCall(crypto_calls[2])
    /\ crypto_calls[1].argument # <<>>
    /\ crypto_calls[2].argument # <<>>
    /\ LastByte(crypto_calls[1].argument) = 0
    /\ LastByte(crypto_calls[2].argument) = 17
    /\ IsRaised(crypto_calls[1].returned)
    /\ IsRaised(crypto_calls[2].returned)
====
